---- MODULE Spec2Model ----
(***************************************************************************)
(* Model of the Quantum-Safe Cryptography Platform backend:                *)
(*   - the crypto classes of crypto_implementations.py (RSA, ECC, AES,     *)
(*     Kyber, Dilithium, Falcon) as operators over an instance record,     *)
(*   - the test harness route test_algorithm and the comparison route      *)
(*     compare_algorithms of routes/algorithms.py,                         *)
(*   - the catalog seeding route seed_algorithms.                          *)
(*                                                                         *)
(* Python values are records with a "tag" field.  Python str objects whose *)
(* characters matter are Text(<<code points>>), byte strings are           *)
(* Bytes(<<bytes>>), base64 strings are B64(..), JSON documents are        *)
(* JsonDumps(record).  Ciphertexts are symbolic terms: a ciphertext        *)
(* decrypts to its plaintext under the key (and iv) it was made with and   *)
(* to an arbitrary byte string under any other.  Random draws              *)
(* (get_random_bytes, os.urandom, generated keys) are inputs of the        *)
(* actions, drawn from small sets.                                         *)
(***************************************************************************)
EXTENDS Integers, Sequences, FiniteSets, TLC

VARIABLES
    algorithms,   \* table "algorithms": sequence of descriptors, id = index
    tests,        \* table "tests": sequence of Test rows, id = index
    response,     \* last response of test_algorithm / seed_algorithms
    cmp,          \* the compare_algorithms request in progress
    crypto_impl,  \* one crypto instance driven directly (class-level runs)
    held,         \* envelope and message the driver holds from encrypt/sign
    ret,          \* outcome of the last direct call on crypto_impl
    reports,      \* table "reports": sequence of Report rows, id = index
    now,          \* datetime.utcnow(), in days
    users,        \* table "users": sequence of User rows, id = index
    inflight      \* the requests in progress that run beside other requests

vars ==
    <<algorithms, tests, response, cmp, crypto_impl, held, ret, reports, now, users, inflight>>

---------------------------------------------------------------------------
(* Bounds of the model *)

MaxLen == 1        \* longest short input, in characters
MaxTests == 1      \* rows the tests table may hold
MaxIds == 2        \* longest algorithm_ids list of a compare request
NumKeys == 2       \* distinct outcomes of one key / secret draw
NumIVs == 1        \* distinct outcomes of one iv / nonce draw
NumUsers == 2      \* principals issuing requests
MaxTime == 1       \* distinct measured durations

---------------------------------------------------------------------------
(* Python values *)

None == [tag |-> "None"]
PyTrue == [tag |-> "bool", t |-> TRUE]
PyFalse == [tag |-> "bool", t |-> FALSE]
PyBool(b) == [tag |-> "bool", t |-> b]
Text(s) == [tag |-> "text", chars |-> s]   \* a str, by its code points
Lit(s) == [tag |-> "lit", s |-> s]          \* a str literal of the program
Bytes(bs) == [tag |-> "bytes", b |-> bs]
Rand(n, i) == [tag |-> "rand", n |-> n, id |-> i]

\* result of a call: a returned value or a raised exception with its text
Ok(v) == [ok |-> TRUE, val |-> v, err |-> ""]
Raise(msg) == [ok |-> FALSE, val |-> None, err |-> msg]   \* str(e) = msg

\* base64.b64encode(x).decode("utf-8") and base64.b64decode
B64Encode(x) == [tag |-> "b64", data |-> x]
IsB64(v) == v.tag = "b64"
B64Decode(v) == v.data

\* json.dumps(dict) and json.loads(str); a document is a record of fields
JsonDumps(d) == [tag |-> "json", doc |-> d]
IsJson(v) == v.tag = "json"
JsonLoads(v) == v.doc

\* str(x): a str is returned as it is, anything else as its repr
IsStr(v) == v.tag \in {"text", "lit", "json", "b64"}
PyStr(v) == IF IsStr(v) THEN v ELSE [tag |-> "repr", of |-> v]

---------------------------------------------------------------------------
(* Strings and bytes *)

SPACE == 32
BLOCK == 16

Chars == {SPACE, 97, 233}     \* " ", "a", and the two-byte character e-acute

Repeat(x, n) == [i \in 1..n |-> x]

\* str.encode("utf-8") for code points below 2048
Utf8Char(c) == IF c < 128 THEN <<c>> ELSE <<192 + (c \div 64), 128 + (c % 64)>>

\* (evaluated by halves, which keeps the evaluation shallow on long inputs)
RECURSIVE Utf8Encode(_)
Utf8Encode(s) ==
    IF \A i \in DOMAIN s : s[i] < 128 THEN s      \* ASCII encodes as itself
    ELSE IF Len(s) = 1 THEN Utf8Char(s[1])
    ELSE LET m == Len(s) \div 2
         IN  Utf8Encode(SubSeq(s, 1, m)) \o Utf8Encode(SubSeq(s, m + 1, Len(s)))

IsContinuation(b) == b >= 128 /\ b < 192
IsLead2(b) == b >= 194 /\ b < 224

\* bytes.decode("utf-8"): <<TRUE, chars>> or <<FALSE, <<>>>> (UnicodeDecodeError).
\* A long input is cut at a character boundary next to its middle.
RECURSIVE Utf8Decode(_)
Utf8Decode(bs) ==
    IF \A i \in DOMAIN bs : bs[i] < 128 THEN <<TRUE, bs>>
    ELSE IF Len(bs) = 1
         THEN <<FALSE, <<>>>>
    ELSE IF Len(bs) = 2 /\ IsLead2(bs[1])
         THEN IF IsContinuation(bs[2])
              THEN <<TRUE, <<(bs[1] - 192) * 64 + (bs[2] - 128)>>>>
              ELSE <<FALSE, <<>>>>
    ELSE LET m0 == Len(bs) \div 2
             m == IF IsContinuation(bs[m0 + 1]) /\ m0 + 1 < Len(bs) THEN m0 + 1 ELSE m0
             l == Utf8Decode(SubSeq(bs, 1, m))
             r == Utf8Decode(SubSeq(bs, m + 1, Len(bs)))
         IN  IF l[1] /\ r[1] THEN <<TRUE, l[2] \o r[2]>> ELSE <<FALSE, <<>>>>

\* bytes.rstrip(b" ")
RECURSIVE RStripSpaces(_)
RStripSpaces(bs) ==
    IF bs # <<>> /\ bs[Len(bs)] = SPACE THEN RStripSpaces(SubSeq(bs, 1, Len(bs) - 1)) ELSE bs

\* Crypto.Util.Padding.pad(data, block_size): PKCS#7
Pad(bs, block) == LET n == block - (Len(bs) % block) IN bs \o Repeat(n, n)

PadOk(bs, block) ==
    /\ Len(bs) > 0
    /\ Len(bs) % block = 0
    /\ LET n == bs[Len(bs)]
       IN  /\ n >= 1 /\ n <= block
           /\ \A i \in (Len(bs) - n + 1)..Len(bs) : bs[i] = n

\* unpad that takes the padding to be one byte long
UnpadOneByte(bs, block) == SubSeq(bs, 1, Len(bs) - 1)

\* Crypto.Util.Padding.unpad, defined when PadOk
Unpad(bs, block) == SubSeq(bs, 1, Len(bs) - bs[Len(bs)])

---------------------------------------------------------------------------
(* Random draws and symbolic primitives *)

NoKey == 0   \* self.public_key = None / attribute "key" not set

KeyIds == 1..NumKeys
IvIds == 1..NumIVs

\* what a cipher returns for a ciphertext made under another key or iv:
\* arbitrary bytes, of which three kinds matter to the callers
GarbageBlocks ==
    <<Repeat(0, BLOCK),                    \* no valid padding
      Repeat(255, BLOCK - 1) \o <<1>>,     \* valid padding, not UTF-8
      Repeat(97, BLOCK - 1) \o <<1>>>>     \* valid padding, valid UTF-8

\* all random values one call may draw
RandDraws ==
    [key : KeyIds, eph : KeyIds, iv : IvIds, aux : IvIds, g : DOMAIN GarbageBlocks]

\* draws of a call that generates keys, encrypts or signs (g is not read), and
\* of a call that decrypts or verifies (only eph and g are read)
FirstDraws == {r \in RandDraws : r.g = 1}
SecondDraws == {r \in RandDraws : r.key = 1 /\ r.iv = 1 /\ r.aux = 1}

SymKey(i) == [tag |-> "symkey", id |-> i]
ECDH(priv, pub) == [tag |-> "ecdh", pair |-> {priv, pub}]
SHA256(x) == [tag |-> "sha256", of |-> x]

\* CBC encryption of block-aligned data, and its inverse
CbcEncrypt(key, iv, data) ==
    [tag |-> "cbc", under |-> key, iv |-> iv, padded |-> Bytes(data)]
CbcDecrypt(key, iv, ct, g) ==
    IF ct.under = key /\ ct.iv = iv THEN ct.padded.b ELSE GarbageBlocks[g]

\* the dict generate_keys returns, by the keys it holds
KeyDict(fields) == [tag |-> "dict", fields |-> fields]

\* CryptoBase.__init__
Instance(category, key_size) ==
    [category |-> category, key_size |-> key_size,
     public_key |-> NoKey, private_key |-> NoKey, key |-> NoKey]

Call(self, r) == [self |-> self, ret |-> r]

---------------------------------------------------------------------------
(* class RSACrypto *)

\* OAEP with SHA-256: longest message of a key_size-bit modulus
RSAMaxPlain(key_size) == (key_size \div 8) - 2 * 32 - 2

RSA_generate_keys(self, rnd) ==
    Call([self EXCEPT !.private_key = rnd.key, !.public_key = rnd.key],
         Ok(KeyDict({"public_key", "private_key", "key_size"})))

RSA_encrypt(self, plaintext, rnd) ==
    LET s1 == IF self.public_key = NoKey THEN RSA_generate_keys(self, rnd).self ELSE self
        bs == Utf8Encode(plaintext)
    IN  IF Len(bs) > RSAMaxPlain(s1.key_size)
        THEN Call(s1, Raise("RSA encryption failed: Encryption failed"))
        ELSE Call(s1, Ok(B64Encode([tag |-> "rsa", key |-> s1.public_key,
                                    seed |-> rnd.iv, msg |-> Bytes(bs)])))

RSA_decrypt(self, ciphertext) ==
    IF self.private_key = NoKey
    THEN Call(self, Raise("RSA decryption failed: Private key not available for decryption"))
    ELSE IF ~IsB64(ciphertext) \/ B64Decode(ciphertext).tag # "rsa"
    THEN Call(self, Raise("RSA decryption failed: Decryption failed"))
    ELSE LET ct == B64Decode(ciphertext)
             d == Utf8Decode(ct.msg.b)
         IN  IF ct.key # self.private_key
             THEN Call(self, Raise("RSA decryption failed: Decryption failed"))
             ELSE IF ~d[1]
             THEN Call(self, Raise("RSA decryption failed: invalid utf-8"))
             ELSE Call(self, Ok(Text(d[2])))

---------------------------------------------------------------------------
(* class ECCCrypto *)

ECC_generate_keys(self, rnd) ==
    Call([self EXCEPT !.private_key = rnd.key, !.public_key = rnd.key],
         Ok(KeyDict({"public_key", "private_key", "curve", "key_size"})))

ECC_sign(self, message, rnd) ==
    LET s1 == IF self.private_key = NoKey THEN ECC_generate_keys(self, rnd).self ELSE self
    IN  Call(s1, Ok(B64Encode([tag |-> "ecdsa", key |-> s1.private_key,
                               seed |-> rnd.aux, msg |-> Bytes(Utf8Encode(message))])))

ECC_verify(self, message, signature) ==
    IF self.public_key = NoKey
    THEN Call(self, Raise("ECC verification failed: Public key not available for verification"))
    ELSE IF ~IsB64(signature)
    THEN Call(self, Raise("ECC verification failed: Incorrect padding"))
    ELSE LET sg == B64Decode(signature)
         IN  Call(self, Ok(PyBool(/\ sg.tag = "ecdsa"
                                  /\ sg.key = self.public_key
                                  /\ sg.msg = Bytes(Utf8Encode(message)))))

\* plaintext + b" " * (16 - len(plaintext) % 16)
SpacePad(bs) == bs \o Repeat(SPACE, BLOCK - (Len(bs) % BLOCK))

ECC_encrypt(self, plaintext, rnd) ==
    LET s1 == IF self.public_key = NoKey THEN ECC_generate_keys(self, rnd).self ELSE self
        ephemeral == rnd.eph
        shared_key == ECDH(ephemeral, s1.public_key)
        aes_key == SHA256(shared_key)
        ciphertext == CbcEncrypt(aes_key, rnd.iv, SpacePad(Utf8Encode(plaintext)))
    IN  Call(s1, Ok(JsonDumps([ciphertext |-> B64Encode(ciphertext),
                               iv |-> B64Encode(Rand(BLOCK, rnd.iv)),
                               ephemeral_public_key |-> B64Encode([tag |-> "pem", key |-> ephemeral])])))

ECC_decrypt(self, encrypted_data, rnd) ==
    IF self.private_key = NoKey
    THEN Call(self, Raise("ECC decryption failed: Private key not available for decryption"))
    ELSE IF ~IsJson(encrypted_data)
    THEN Call(self, Raise("ECC decryption failed: Expecting value"))
    ELSE LET data == JsonLoads(encrypted_data)
         IN  IF ~({"ciphertext", "iv", "ephemeral_public_key"} \subseteq DOMAIN data)
             THEN Call(self, Raise("ECC decryption failed: KeyError"))
             ELSE LET ciphertext == B64Decode(data.ciphertext)
                      iv == B64Decode(data.iv)
                      ephemeral == B64Decode(data.ephemeral_public_key).key
                      shared_key == ECDH(self.private_key, ephemeral)
                      aes_key == SHA256(shared_key)
                      padded == CbcDecrypt(aes_key, iv.id, ciphertext, rnd.g)
                      d == Utf8Decode(RStripSpaces(padded))
                  IN  IF ~d[1]
                      THEN Call(self, Raise("ECC decryption failed: invalid utf-8"))
                      ELSE Call(self, Ok(Text(d[2])))

---------------------------------------------------------------------------
(* class AESCrypto *)

AES_generate_keys(self, rnd) ==
    Call([self EXCEPT !.key = rnd.key], Ok(KeyDict({"key", "key_size"})))

AES_encrypt(self, plaintext, rnd) ==
    LET s1 == IF self.key = NoKey THEN AES_generate_keys(self, rnd).self ELSE self
        ciphertext == CbcEncrypt(SymKey(s1.key), rnd.iv, Pad(Utf8Encode(plaintext), BLOCK))
    IN  Call(s1, Ok(JsonDumps([ciphertext |-> B64Encode(ciphertext),
                               iv |-> B64Encode(Rand(BLOCK, rnd.iv))])))

\* a decrypt that generates a key when it holds none, as encrypt does
AES_decrypt_lazy(self, encrypted_data, rnd) ==
    LET s1 == IF self.key = NoKey THEN AES_generate_keys(self, rnd).self ELSE self
    IN  Call(s1, Raise("AES decryption failed: Padding is incorrect."))

AES_decrypt(self, encrypted_data, rnd) ==
    IF self.key = NoKey
    THEN Call(self, Raise("AES decryption failed: AES key not available for decryption"))
    ELSE IF ~IsJson(encrypted_data)
    THEN Call(self, Raise("AES decryption failed: Expecting value"))
    ELSE LET data == JsonLoads(encrypted_data)
         IN  IF ~({"ciphertext", "iv"} \subseteq DOMAIN data)
             THEN Call(self, Raise("AES decryption failed: KeyError"))
             ELSE LET ciphertext == B64Decode(data.ciphertext)
                      iv == B64Decode(data.iv)
                      padded == CbcDecrypt(SymKey(self.key), iv.id, ciphertext, rnd.g)
                  IN  IF ~PadOk(padded, BLOCK)
                      THEN Call(self, Raise("AES decryption failed: Padding is incorrect."))
                      ELSE LET d == Utf8Decode(Unpad(padded, BLOCK))
                           IN  IF ~d[1]
                               THEN Call(self, Raise("AES decryption failed: invalid utf-8"))
                               ELSE Call(self, Ok(Text(d[2])))

---------------------------------------------------------------------------
(* class KyberCrypto *)

Kyber_generate_keys(self, rnd) ==
    Call([self EXCEPT !.public_key = rnd.key, !.private_key = rnd.key],
         Ok(KeyDict({"public_key", "private_key", "algorithm", "security_level",
                     "public_key_size", "private_key_size"})))

Kyber_encrypt(self, plaintext, rnd) ==
    LET s1 == IF self.public_key = NoKey THEN Kyber_generate_keys(self, rnd).self ELSE self
        shared_secret == rnd.eph
        aes_crypto == [Instance("AES", 256) EXCEPT !.key = shared_secret]
        encrypted_message == AES_encrypt(aes_crypto, plaintext, rnd).ret.val
    IN  Call(s1, Ok(JsonDumps([encapsulated_secret |-> B64Encode(Rand(64, rnd.aux)),
                               encrypted_message |-> encrypted_message,
                               algorithm |-> Lit("Kyber")])))

\* a decrypt that recovers the key the message was encrypted under
Kyber_decrypt_decapsulating(self, encrypted_data, rnd) ==
    LET data == JsonLoads(encrypted_data)
        shared_secret == B64Decode(JsonLoads(data.encrypted_message).ciphertext).under.id
        aes_crypto == [Instance("AES", 256) EXCEPT !.key = shared_secret]
    IN  Call(self, AES_decrypt(aes_crypto, data.encrypted_message, rnd).ret)

Kyber_decrypt(self, encrypted_data, rnd) ==
    IF self.private_key = NoKey
    THEN Call(self, Raise("Kyber decryption failed: Private key not available for decryption"))
    ELSE IF ~IsJson(encrypted_data)
    THEN Call(self, Raise("Kyber decryption failed: Expecting value"))
    ELSE LET data == JsonLoads(encrypted_data)
         IN  IF ~({"encapsulated_secret", "encrypted_message"} \subseteq DOMAIN data)
             THEN Call(self, Raise("Kyber decryption failed: KeyError"))
             ELSE LET shared_secret == rnd.eph
                      aes_crypto == [Instance("AES", 256) EXCEPT !.key = shared_secret]
                      inner == AES_decrypt(aes_crypto, data.encrypted_message, rnd).ret
                  IN  IF inner.ok THEN Call(self, inner)
                      ELSE Call(self, Raise("Kyber decryption failed: AES decryption failed"))

---------------------------------------------------------------------------
(* class DilithiumCrypto *)

\* {2: 2420, 3: 3293, 5: 4595}.get(self.key_size, 2420)
DilithiumSignatureSize(key_size) ==
    IF key_size = 3 THEN 3293 ELSE IF key_size = 5 THEN 4595 ELSE 2420

\* hashes.Hash(SHA256).finalize() with no update: the digest of the empty input
EmptyDigest == SHA256(Bytes(<<>>))

Dilithium_generate_keys(self, rnd) ==
    Call([self EXCEPT !.public_key = rnd.key, !.private_key = rnd.key],
         Ok(KeyDict({"public_key", "private_key", "algorithm", "security_level",
                     "public_key_size", "private_key_size"})))

Dilithium_sign(self, message, rnd) ==
    LET s1 == IF self.private_key = NoKey THEN Dilithium_generate_keys(self, rnd).self ELSE self
        signature == Rand(DilithiumSignatureSize(s1.key_size), rnd.aux)
    IN  Call(s1, Ok(JsonDumps([signature |-> B64Encode(signature),
                               message_hash |-> B64Encode(EmptyDigest),
                               algorithm |-> Lit("Dilithium")])))

\* a verify that also compares the envelope's digest with the message's
Dilithium_verify_digest(self, message, signature_data) ==
    IF self.public_key = NoKey \/ ~IsJson(signature_data)
    THEN Call(self, Raise("Dilithium verification failed"))
    ELSE LET data == JsonLoads(signature_data)
         IN  Call(self, Ok(PyBool(/\ "signature" \in DOMAIN data
                                  /\ "algorithm" \in DOMAIN data
                                  /\ "message_hash" \in DOMAIN data
                                  /\ data.message_hash =
                                        B64Encode(SHA256(Bytes(Utf8Encode(message)))))))

Dilithium_verify(self, message, signature_data) ==
    IF self.public_key = NoKey
    THEN Call(self, Raise("Dilithium verification failed: Public key not available for verification"))
    ELSE IF ~IsJson(signature_data)
    THEN Call(self, Raise("Dilithium verification failed: Expecting value"))
    ELSE LET data == JsonLoads(signature_data)
         IN  Call(self, Ok(PyBool("signature" \in DOMAIN data /\ "algorithm" \in DOMAIN data)))

\* an encrypt that returns the encoded plaintext instead of raising
Dilithium_encrypt_encoded(self, plaintext) ==
    Call(self, Ok(B64Encode(Bytes(Utf8Encode(plaintext)))))

Dilithium_encrypt(self, plaintext) ==
    Call(self, Raise("Dilithium is a signature algorithm, not for encryption. Use sign() method instead."))

Dilithium_decrypt(self, ciphertext) ==
    Call(self, Raise("Dilithium is a signature algorithm, not for decryption. Use verify() method instead."))

---------------------------------------------------------------------------
(* class FalconCrypto *)

\* {512: 690, 1024: 1330}.get(self.key_size, 690)
FalconSignatureSize(key_size) == IF key_size = 1024 THEN 1330 ELSE 690

Falcon_generate_keys(self, rnd) ==
    Call([self EXCEPT !.public_key = rnd.key, !.private_key = rnd.key],
         Ok(KeyDict({"public_key", "private_key", "algorithm", "security_level",
                     "public_key_size", "private_key_size"})))

Falcon_sign(self, message, rnd) ==
    LET s1 == IF self.private_key = NoKey THEN Falcon_generate_keys(self, rnd).self ELSE self
        signature == Rand(FalconSignatureSize(s1.key_size), rnd.aux)
    IN  Call(s1, Ok(JsonDumps([signature |-> B64Encode(signature),
                               message_hash |-> B64Encode(EmptyDigest),
                               algorithm |-> Lit("Falcon")])))

\* a verify that rejects an envelope whose digest is not the message's
Falcon_verify_digest(self, message, signature_data) ==
    IF self.public_key = NoKey \/ ~IsJson(signature_data)
    THEN Call(self, Raise("Falcon verification failed"))
    ELSE LET data == JsonLoads(signature_data)
         IN  IF "message_hash" \in DOMAIN data
                /\ data.message_hash # B64Encode(SHA256(Bytes(Utf8Encode(message))))
             THEN Call(self, Ok(PyFalse))
             ELSE Call(self, Ok(PyBool("signature" \in DOMAIN data /\ "algorithm" \in DOMAIN data)))

Falcon_verify(self, message, signature_data) ==
    IF self.public_key = NoKey
    THEN Call(self, Raise("Falcon verification failed: Public key not available for verification"))
    ELSE IF ~IsJson(signature_data)
    THEN Call(self, Raise("Falcon verification failed: Expecting value"))
    ELSE LET data == JsonLoads(signature_data)
         IN  Call(self, Ok(PyBool("signature" \in DOMAIN data /\ "algorithm" \in DOMAIN data)))

Falcon_encrypt(self, plaintext) ==
    Call(self, Raise("Falcon is a signature algorithm, not for encryption. Use sign() method instead."))

\* a decrypt that looks for the private key before it refuses
Falcon_decrypt_keyed(self, ciphertext) ==
    IF self.private_key = NoKey
    THEN Call(self, Raise("Falcon decryption failed: Private key not available for decryption"))
    ELSE Call(self, Raise("Falcon is a signature algorithm, not for decryption. Use verify() method instead."))

Falcon_decrypt(self, ciphertext) ==
    Call(self, Raise("Falcon is a signature algorithm, not for decryption. Use verify() method instead."))

---------------------------------------------------------------------------
(* Method dispatch on the instance's class (ALGORITHM_IMPLEMENTATIONS) *)

Categories == {"RSA", "ECC", "AES", "Kyber", "Dilithium", "Falcon"}
SignatureOnly == {"Dilithium", "Falcon"}

\* hasattr(crypto_impl, "sign") and hasattr(crypto_impl, "verify")
\* a dispatch chain whose signing branch does not ask for the method
HasSignAlways(category) == category \in Categories

HasSign(category) == category \in {"ECC", "Dilithium", "Falcon"}
HasVerify(category) == category \in {"ECC", "Dilithium", "Falcon"}

generate_keys(self, rnd) ==
    CASE self.category = "RSA" -> RSA_generate_keys(self, rnd)
      [] self.category = "ECC" -> ECC_generate_keys(self, rnd)
      [] self.category = "AES" -> AES_generate_keys(self, rnd)
      [] self.category = "Kyber" -> Kyber_generate_keys(self, rnd)
      [] self.category = "Dilithium" -> Dilithium_generate_keys(self, rnd)
      [] self.category = "Falcon" -> Falcon_generate_keys(self, rnd)

encrypt(self, plaintext, rnd) ==
    CASE self.category = "RSA" -> RSA_encrypt(self, plaintext, rnd)
      [] self.category = "ECC" -> ECC_encrypt(self, plaintext, rnd)
      [] self.category = "AES" -> AES_encrypt(self, plaintext, rnd)
      [] self.category = "Kyber" -> Kyber_encrypt(self, plaintext, rnd)
      [] self.category = "Dilithium" -> Dilithium_encrypt(self, plaintext)
      [] self.category = "Falcon" -> Falcon_encrypt(self, plaintext)

decrypt(self, ciphertext, rnd) ==
    CASE self.category = "RSA" -> RSA_decrypt(self, ciphertext)
      [] self.category = "ECC" -> ECC_decrypt(self, ciphertext, rnd)
      [] self.category = "AES" -> AES_decrypt(self, ciphertext, rnd)
      [] self.category = "Kyber" -> Kyber_decrypt(self, ciphertext, rnd)
      [] self.category = "Dilithium" -> Dilithium_decrypt(self, ciphertext)
      [] self.category = "Falcon" -> Falcon_decrypt(self, ciphertext)

sign(self, message, rnd) ==
    CASE self.category = "ECC" -> ECC_sign(self, message, rnd)
      [] self.category = "Dilithium" -> Dilithium_sign(self, message, rnd)
      [] self.category = "Falcon" -> Falcon_sign(self, message, rnd)
      [] OTHER -> Call(self, Raise("object has no attribute 'sign'"))

verify(self, message, signature) ==
    CASE self.category = "ECC" -> ECC_verify(self, message, signature)
      [] self.category = "Dilithium" -> Dilithium_verify(self, message, signature)
      [] self.category = "Falcon" -> Falcon_verify(self, message, signature)

---------------------------------------------------------------------------
(* The catalog: the seed list of seed_algorithms *)

Descriptor(name, type, category, key_size, quantum_safe) ==
    [name |-> name, type |-> type, category |-> category,
     key_size |-> key_size, quantum_safe |-> quantum_safe]

classical_algorithms ==
    <<Descriptor("RSA-2048", "classical", "RSA", 2048, FALSE),
      Descriptor("RSA-4096", "classical", "RSA", 4096, FALSE),
      Descriptor("ECC-P256", "classical", "ECC", 256, FALSE),
      Descriptor("ECC-P384", "classical", "ECC", 384, FALSE),
      Descriptor("AES-128", "classical", "AES", 128, FALSE),
      Descriptor("AES-256", "classical", "AES", 256, FALSE)>>

post_quantum_algorithms ==
    <<Descriptor("Kyber-512", "post-quantum", "Kyber", 512, TRUE),
      Descriptor("Kyber-768", "post-quantum", "Kyber", 768, TRUE),
      Descriptor("Kyber-1024", "post-quantum", "Kyber", 1024, TRUE),
      Descriptor("Dilithium-2", "post-quantum", "Dilithium", 2, TRUE),
      Descriptor("Dilithium-3", "post-quantum", "Dilithium", 3, TRUE),
      Descriptor("Falcon-512", "post-quantum", "Falcon", 512, TRUE),
      Descriptor("Falcon-1024", "post-quantum", "Falcon", 1024, TRUE)>>

\* a seed list without the post-quantum entries
classical_only == classical_algorithms

all_algorithms == classical_algorithms \o post_quantum_algorithms

\* Algorithm.query.get(id): the row or "not found"
AlgorithmFound(id) == id \in 1..Len(algorithms)

---------------------------------------------------------------------------
(* Inputs of the requests *)

RECURSIVE SeqsUpTo(_, _)
SeqsUpTo(S, n) ==
    IF n = 0 THEN {<<>>}
    ELSE LET shorter == SeqsUpTo(S, n - 1)
         IN  shorter \cup {Append(s, c) : s \in {t \in shorter : Len(t) = n - 1}, c \in S}

ShortInputs == SeqsUpTo(Chars, MaxLen)

\* "Hello, Quantum World!"
DefaultInput ==
    <<72, 101, 108, 108, 111, 44, 32, 81, 117, 97, 110, 116, 117, 109, 32,
      87, 111, 114, 108, 100, 33>>

\* inputs around the 16-byte block boundary: 15, 16 and 17 bytes
BoundaryInputs == {Repeat(97, BLOCK - 1) \o s : s \in SeqsUpTo(Chars, 1)}

\* one byte more than RSA-2048 with OAEP can carry
LongInput == Repeat(97, RSAMaxPlain(2048) + 1)

Users == 1..NumUsers
Times == 1..MaxTime

OperationKinds == {"key_generation", "encryption", "decryption", "signing", "verification"}

---------------------------------------------------------------------------
(* test_algorithm: the harness *)

\* an auto-correction that knows one of the two signature classes only
AutoCorrectDilithium(category, test_type) ==
    IF category = "Dilithium" /\ test_type = "encryption" THEN "signing" ELSE test_type

\* "Auto-correct test type for signature algorithms"
AutoCorrect(category, test_type) ==
    IF category \in {"Dilithium", "Falcon"} /\ test_type = "encryption"
    THEN "signing" ELSE test_type

\* the branch of the dispatch chain that test_type takes on this class exists
Supported(category, test_type) ==
    \/ test_type \in {"encryption", "decryption", "key_generation"}
    \/ test_type = "signing" /\ HasSign(category)
    \/ test_type = "verification" /\ HasVerify(category)

\* output_data of a key_generation test: the two sizes are len(str(..)) of the
\* dict's entries, positive exactly when the entry exists
KeySizes(result) ==
    [tag |-> "dict", generated |-> TRUE,
     public_key_size_positive |-> "public_key" \in result.fields,
     private_key_size_positive |-> "private_key" \in result.fields]

Verified(result) == [tag |-> "dict", verified |-> result.t]

\* The dispatch chain inside the inner try, on a class that supports test_type:
\* Ok(output_data) or the exception raised (crypto_error).
RunTest(impl, test_type, input_data, r1, r2) ==
    CASE test_type = "encryption" -> encrypt(impl, input_data, r1).ret
      [] test_type = "decryption" ->
            LET encrypted == encrypt(impl, input_data, r1)
            IN  IF ~encrypted.ret.ok THEN encrypted.ret
                ELSE decrypt(encrypted.self, encrypted.ret.val, r2).ret
      [] test_type = "key_generation" ->
            Ok(KeySizes(generate_keys(impl, r1).ret.val))
      [] test_type = "signing" -> sign(impl, input_data, r1).ret
      [] test_type = "verification" ->
            LET signature == sign(impl, input_data, r1)
                result == verify(signature.self, input_data, signature.ret.val).ret
            IN  IF ~result.ok THEN result ELSE Ok(Verified(result.val))

Metadata(algorithm) == [key_size |-> algorithm.key_size, algorithm_type |-> algorithm.type]

\* Test(... success=True ...) of the success path
SuccessRecord(user, algorithm_id, algorithm, test_type, input_data, output_data, t) ==
    [user_id |-> user, algorithm_id |-> algorithm_id, test_type |-> test_type,
     input_data |-> Text(input_data), output_data |-> PyStr(output_data),
     execution_time |-> t, success |-> TRUE, error_message |-> None, created_at |-> now,
     test_metadata |-> Metadata(algorithm)]

\* an except path that stores the row with the success path's flag
FailedRecordFlagged(user, algorithm_id, algorithm, test_type, input_data, crypto_error, t) ==
    [user_id |-> user, algorithm_id |-> algorithm_id, test_type |-> test_type,
     input_data |-> Text(input_data), output_data |-> None,
     execution_time |-> t, success |-> TRUE, error_message |-> Lit(crypto_error), created_at |-> now,
     test_metadata |-> Metadata(algorithm)]

\* an except path that stores str(output_data) as the success path does
FailedRecordWithOutput(user, algorithm_id, algorithm, test_type, input_data, crypto_error, t) ==
    [user_id |-> user, algorithm_id |-> algorithm_id, test_type |-> test_type,
     input_data |-> Text(input_data), output_data |-> PyStr(None),
     execution_time |-> t, success |-> FALSE, error_message |-> Lit(crypto_error), created_at |-> now,
     test_metadata |-> Metadata(algorithm)]

\* Test(... success=False ...) of the except path
FailedRecord(user, algorithm_id, algorithm, test_type, input_data, crypto_error, t) ==
    [user_id |-> user, algorithm_id |-> algorithm_id, test_type |-> test_type,
     input_data |-> Text(input_data), output_data |-> None,
     execution_time |-> t, success |-> FALSE, error_message |-> Lit(crypto_error), created_at |-> now,
     test_metadata |-> Metadata(algorithm)]

\* the JSON body and status a route returns, with the request it answers
Response(route, req, status, message, error, test_id) ==
    [route |-> route, req |-> req, status |-> status, message |-> message,
     error |-> error, test_id |-> test_id]

NoRequest == [user |-> 0, algorithm_id |-> 0, test_type |-> "", input_data |-> None]
NoResponse == Response("", NoRequest, 0, "", "", 0)

\* request fields: test_type and input_data may be absent ("" and None)
TestTypeInputs == OperationKinds \cup {"", "hashing"}

test_algorithm(user, algorithm_id, req_type, req_input, r1, r2, t) ==
    LET req == [user |-> user, algorithm_id |-> algorithm_id,
                test_type |-> req_type, input_data |-> req_input]
    IN
    IF ~AlgorithmFound(algorithm_id)
    THEN /\ response' = Response("test", req, 404, "", "Algorithm not found", 0)
         /\ UNCHANGED <<algorithms, tests>>
    ELSE
    LET algorithm == algorithms[algorithm_id]
        test_type0 == IF req_type = "" THEN "encryption" ELSE req_type
        input_data == IF req_input = None THEN DefaultInput ELSE req_input.chars
        test_type == AutoCorrect(algorithm.category, test_type0)
    IN
    IF algorithm.category \notin Categories
    THEN /\ response' = Response("test", req, 400, "", "Implementation not available", 0)
         /\ UNCHANGED <<algorithms, tests>>
    ELSE IF ~(test_type \in OperationKinds /\ Supported(algorithm.category, test_type))
    THEN /\ response' = Response("test", req, 400, "", "Unsupported test type", 0)
         /\ UNCHANGED <<algorithms, tests>>
    ELSE
    LET crypto_impl0 == Instance(algorithm.category, algorithm.key_size)
        out == RunTest(crypto_impl0, test_type, input_data, r1, r2)
    IN  /\ UNCHANGED algorithms
        /\ IF out.ok
           THEN /\ tests' = Append(tests, SuccessRecord(user, algorithm_id, algorithm,
                                                        test_type, input_data, out.val, t))
                /\ response' = Response("test", req, 200, "Test completed successfully",
                                        "", Len(tests) + 1)
           ELSE /\ tests' = Append(tests, FailedRecord(user, algorithm_id, algorithm,
                                                       test_type, input_data, out.err, t))
                /\ response' = Response("test", req, 400, "Test failed",
                                        out.err, Len(tests) + 1)

\* a seed that writes the list whatever the catalog holds
seed_algorithms_unchecked ==
    /\ algorithms' = all_algorithms
    /\ response' = Response("seed", NoRequest, 201, "Successfully seeded algorithms", "", 0)
    /\ UNCHANGED tests

seed_algorithms ==
    IF Len(algorithms) > 0
    THEN /\ response' = Response("seed", NoRequest, 200, "Algorithms already seeded", "", 0)
         /\ UNCHANGED <<algorithms, tests>>
    ELSE /\ algorithms' = all_algorithms
         /\ response' = Response("seed", NoRequest, 201, "Successfully seeded algorithms", "", 0)
         /\ UNCHANGED tests

---------------------------------------------------------------------------
(* The harness under requests of several principals *)

\* the requests name one algorithm of each class, both RSA sizes, and an id
\* the catalog does not hold
RequestIds == {1, 2, 3, 5, 7, 10, 12, Len(all_algorithms) + 1}

HarnessInputs == {None} \cup {Text(m) : m \in ShortInputs \cup {LongInput}}

\* the request reaches the dispatch chain, where its input and the random
\* draws are read; a request answered before that reads neither
Runs(algorithm_id, req_type) ==
    /\ AlgorithmFound(algorithm_id)
    /\ LET category == algorithms[algorithm_id].category
           test_type == AutoCorrect(category, IF req_type = "" THEN "encryption" ELSE req_type)
       IN  category \in Categories /\ test_type \in OperationKinds
             /\ Supported(category, test_type)

\* the draws of the chain's second call, made by decryption and verification
TwoCalls(req_type) == req_type \in {"decryption", "verification"}

NoDraw == CHOOSE r \in FirstDraws \cap SecondDraws : TRUE

NoInstance == Instance("", 0)

InitHarness ==
    /\ algorithms = <<>>
    /\ tests = <<>>
    /\ response = NoResponse
    /\ cmp = [pc |-> "idle"]
    /\ crypto_impl = NoInstance
    /\ held = [kind |-> "none", msg |-> None, env |-> None, fresh |-> FALSE]
    /\ ret = [op |-> ""]
    /\ reports = <<>>
    /\ now = 0
    /\ users = <<>>
    /\ inflight = <<>>

NextHarness ==
    \/ seed_algorithms /\ UNCHANGED <<cmp, crypto_impl, held, ret, reports, now, users, inflight>>
    \/ \E user \in Users, algorithm_id \in RequestIds, req_type \in TestTypeInputs :
          \E req_input \in IF Runs(algorithm_id, req_type) THEN HarnessInputs ELSE {None},
             r1 \in IF Runs(algorithm_id, req_type) THEN FirstDraws ELSE {NoDraw},
             r2 \in IF Runs(algorithm_id, req_type) /\ TwoCalls(req_type)
                    THEN SecondDraws ELSE {NoDraw},
             t \in Times :
             /\ Len(tests) < MaxTests      \* the model stops at a full table
             /\ test_algorithm(user, algorithm_id, req_type, req_input, r1, r2, t)
             /\ UNCHANGED <<cmp, crypto_impl, held, ret, reports, now, users, inflight>>

SpecHarness == InitHarness /\ [][NextHarness]_vars

---------------------------------------------------------------------------
(* compare_algorithms *)

\* a call on the instance as the route makes it: the instance before and
\* after, the argument and the outcome
Step(op, before, arg, c) ==
    [op |-> op, before |-> before, after |-> c.self, arg |-> arg,
     ok |-> c.ret.ok, out |-> c.ret.val]

Performance(encryption_time, decryption_time, key_gen_time) ==
    [tag |-> "dict", encryption_time_ms |-> encryption_time,
     decryption_time_ms |-> decryption_time, key_generation_time_ms |-> key_gen_time,
     total_time_ms |-> encryption_time + decryption_time + key_gen_time]

\* the dict appended by the except branch
ErrorRow(algo_id, e) ==
    [algorithm |-> algo_id, performance |-> None, success |-> FALSE, error |-> e]

\* the dict appended when the three calls returned
ResultRow(algo_id, performance, success) ==
    [algorithm |-> algo_id, performance |-> performance, success |-> success, error |-> ""]

\* a loop body that generates the keys before it encrypts and decrypts
CompareOneKeysFirst(algo_id, algorithm, test_data, r1, r2, r3, times) ==
    LET impl == Instance(algorithm.category, algorithm.key_size)
        keys == generate_keys(impl, r3)
        k == Step("generate_keys", impl, None, keys)
        encrypted == encrypt(keys.self, test_data, r1)
        e == Step("encrypt", keys.self, Text(test_data), encrypted)
        decrypted == decrypt(encrypted.self, encrypted.ret.val, r2)
        d == Step("decrypt", encrypted.self, encrypted.ret.val, decrypted)
    IN  IF ~encrypted.ret.ok
        THEN [row |-> ErrorRow(algo_id, encrypted.ret.err), calls |-> <<k, e>>]
        ELSE IF ~decrypted.ret.ok
        THEN [row |-> ErrorRow(algo_id, decrypted.ret.err), calls |-> <<k, e, d>>]
        ELSE [row |-> ResultRow(algo_id, Performance(times[1], times[2], times[3]),
                                decrypted.ret.val = Text(test_data)),
              calls |-> <<k, e, d>>]

\* The try block of the loop body for one resolved algorithm: the row it
\* appends and the calls it made on crypto_impl, in order.
CompareOne(algo_id, algorithm, test_data, r1, r2, r3, times) ==
    LET impl == Instance(algorithm.category, algorithm.key_size)
        encrypted == encrypt(impl, test_data, r1)
        e == Step("encrypt", impl, Text(test_data), encrypted)
    IN  IF ~encrypted.ret.ok
        THEN [row |-> ErrorRow(algo_id, encrypted.ret.err), calls |-> <<e>>]
        ELSE
        LET decrypted == decrypt(encrypted.self, encrypted.ret.val, r2)
            d == Step("decrypt", encrypted.self, encrypted.ret.val, decrypted)
        IN  IF ~decrypted.ret.ok
            THEN [row |-> ErrorRow(algo_id, decrypted.ret.err), calls |-> <<e, d>>]
            ELSE
            LET keys == generate_keys(decrypted.self, r3)
                k == Step("generate_keys", decrypted.self, None, keys)
            IN  IF ~keys.ret.ok
                THEN [row |-> ErrorRow(algo_id, keys.ret.err), calls |-> <<e, d, k>>]
                ELSE [row |-> ResultRow(algo_id,
                                        Performance(times[1], times[2], times[3]),
                                        decrypted.ret.val = Text(test_data)),
                      calls |-> <<e, d, k>>]

\* the request being served: pc is "loop" inside the for loop and "done" when
\* the response (status, error, comparison) is out; calls are those of the
\* last try block
Comparison(pc, algorithm_ids, test_data, i, results, calls, status, error) ==
    [pc |-> pc, algorithm_ids |-> algorithm_ids, test_data |-> test_data, i |-> i,
     comparison |-> results, calls |-> calls, status |-> status, error |-> error]

\* request parsing and the length check
compare_algorithms_begin(algorithm_ids, req_test_data) ==
    LET test_data == IF req_test_data = None THEN DefaultInput ELSE req_test_data.chars
    IN  /\ cmp.pc \in {"idle", "done"}
        /\ IF Len(algorithm_ids) < 2
           THEN cmp' = Comparison("done", algorithm_ids, Text(test_data), 0, <<>>, <<>>, 400,
                                  "At least 2 algorithms required for comparison")
           ELSE cmp' = Comparison("loop", algorithm_ids, Text(test_data), 1, <<>>, <<>>, 0, "")
        /\ UNCHANGED <<algorithms, tests>>

\* one pass of the for loop; the last pass returns the response
compare_algorithms_pass(r1, r2, r3, times) ==
    /\ cmp.pc = "loop"
    /\ LET algo_id == cmp.algorithm_ids[cmp.i]
           last == cmp.i = Len(cmp.algorithm_ids)
           one == CompareOne(algo_id, algorithms[algo_id], cmp.test_data.chars,
                             r1, r2, r3, times)
           skip == \/ ~AlgorithmFound(algo_id)
                   \/ algorithms[algo_id].category \notin Categories
       IN  cmp' = [cmp EXCEPT !.i = cmp.i + 1,
                              !.comparison = IF skip THEN @ ELSE Append(@, one.row),
                              !.calls = IF skip THEN <<>> ELSE one.calls,
                              !.pc = IF last THEN "done" ELSE "loop",
                              !.status = IF last THEN 200 ELSE 0]
    /\ UNCHANGED <<algorithms, tests>>

---------------------------------------------------------------------------
(* Comparison requests *)

CompareInputs == {None} \cup {Text(m) : m \in ShortInputs}

\* the draw of a generate_keys call, which reads the key only
KeyDraws == {r \in RandDraws : r.eph = 1 /\ r.iv = 1 /\ r.aux = 1 /\ r.g = 1}

\* the pass reaches the try block, where the draws and the clock are read
PassRuns ==
    /\ cmp.pc = "loop"
    /\ AlgorithmFound(cmp.algorithm_ids[cmp.i])

InitCompare ==
    /\ algorithms = <<>>
    /\ tests = <<>>
    /\ response = NoResponse
    /\ cmp = [pc |-> "idle"]
    /\ crypto_impl = NoInstance
    /\ held = [kind |-> "none", msg |-> None, env |-> None, fresh |-> FALSE]
    /\ ret = [op |-> ""]
    /\ reports = <<>>
    /\ now = 0
    /\ users = <<>>
    /\ inflight = <<>>

NextCompare ==
    \/ /\ cmp.pc = "idle"   \* the catalog is seeded, or not, before the request
       /\ seed_algorithms
       /\ UNCHANGED <<cmp, crypto_impl, held, ret, reports, now, users, inflight>>
    \/ \E algorithm_ids \in SeqsUpTo(RequestIds, MaxIds), test_data \in CompareInputs :
          /\ cmp.pc = "idle"   \* one comparison request per behaviour
          /\ compare_algorithms_begin(algorithm_ids, test_data)
          /\ UNCHANGED <<response, crypto_impl, held, ret, reports, now, users, inflight>>
    \/ \E r1 \in IF PassRuns THEN FirstDraws ELSE {NoDraw},
          r2 \in IF PassRuns THEN SecondDraws ELSE {NoDraw},
          r3 \in IF PassRuns THEN KeyDraws ELSE {NoDraw},
          times \in [1..3 -> Times] :
          /\ compare_algorithms_pass(r1, r2, r3, times)
          /\ UNCHANGED <<response, crypto_impl, held, ret, reports, now, users, inflight>>

SpecCompare == InitCompare /\ [][NextCompare]_vars

---------------------------------------------------------------------------
(* Properties of the harness *)

\* the request the last response answers, and what it names
Req == response.req
ReqFound == response.route = "test" /\ AlgorithmFound(Req.algorithm_id)
ReqCategory == algorithms[Req.algorithm_id].category
ReqInput == IF Req.input_data = None THEN DefaultInput ELSE Req.input_data.chars

\* the outcomes the primitive of a (class, operation, input) can have: TRUE for
\* "completes", FALSE for "raises"
Outcomes(algorithm, test_type, input) ==
    LET too_long == /\ algorithm.category = "RSA"
                    /\ Len(Utf8Encode(input)) > RSAMaxPlain(algorithm.key_size)
    IN  CASE test_type \in {"key_generation", "signing", "verification"} -> {TRUE}
          [] algorithm.category \in SignatureOnly -> {FALSE}
          [] algorithm.category = "Kyber" /\ test_type = "decryption" -> {TRUE, FALSE}
          [] OTHER -> {~too_long}

\* C1 as claimed: a request for an existing algorithm with one of the five
\* operation kinds ends with exactly one new row, owned by the caller, whose
\* success flag tells whether the primitive completed.
C1_AlwaysOneRecord ==
    [][(response'.route = "test" /\ AlgorithmFound(response'.req.algorithm_id)
          /\ response'.req.test_type \in OperationKinds)
       => /\ Len(tests') = Len(tests) + 1
          /\ tests'[Len(tests')].user_id = response'.req.user
          /\ tests'[Len(tests')].success = (response'.status = 200)]_vars

\* C1 as the code has it: the request ends with exactly one new row (owned by
\* the caller, success flag = the primitive completed) when the class has the
\* operation; signing and verification on a class without sign/verify (RSA,
\* AES, Kyber) end with "Unsupported test type" and no new row.
C1_OneRecordWhenSupported ==
    [][(response'.route = "test" /\ AlgorithmFound(response'.req.algorithm_id)
          /\ response'.req.test_type \in OperationKinds)
       => LET req == response'.req
              algorithm == algorithms[req.algorithm_id]
              test_type == IF algorithm.category \in SignatureOnly
                              /\ req.test_type = "encryption"
                           THEN "signing" ELSE req.test_type
              input == IF req.input_data = None THEN DefaultInput ELSE req.input_data.chars
              row == tests'[Len(tests')]
          IN  IF test_type \in {"signing", "verification"}
                 /\ algorithm.category \in {"RSA", "AES", "Kyber"}
              THEN /\ tests' = tests
                   /\ response'.status = 400
                   /\ response'.error = "Unsupported test type"
              ELSE /\ Len(tests') = Len(tests) + 1
                   /\ SubSeq(tests', 1, Len(tests)) = tests
                   /\ response'.test_id = Len(tests')
                   /\ row.user_id = req.user
                   /\ row.algorithm_id = req.algorithm_id
                   /\ row.input_data = Text(input)
                   /\ row.success = (response'.status = 200)
                   /\ row.success = (response'.message = "Test completed successfully")
                   /\ row.success \in Outcomes(algorithm, test_type, input)]_vars

\* a failed primitive left its row, and an unsupported signing left none
C1_Witness ==
    /\ ReqFound /\ Req.test_type = "decryption" /\ ReqCategory = "Falcon"
    /\ Len(tests) = 1 /\ ~tests[1].success /\ tests[1].user_id = Req.user
    /\ response.status = 400

\* the two shapes of a row
WellFormed(row) ==
    IF row.success
    THEN /\ row.output_data # None
         /\ row.output_data.tag \in {"text", "lit", "json", "b64", "repr"}
         /\ row.error_message = None
    ELSE /\ row.output_data = None
         /\ row.error_message # None /\ row.error_message.tag = "lit"

\* C2: every stored row has one of the two shapes: failed, with the error's
\* description and no output, or successful, with an output and no error
\* message; the description is the one the response reports.
C2_WellFormedRecords ==
    /\ \A i \in DOMAIN tests : WellFormed(tests[i])
    /\ (response.route = "test" /\ response.test_id > 0)
          => LET row == tests[response.test_id]
             IN  /\ row.success => response.error = ""
                 /\ ~row.success => row.error_message = Lit(response.error)
                                     /\ response.error # ""

C2_Witness ==
    /\ Len(tests) = 1 /\ ~tests[1].success /\ tests[1].output_data = None
    /\ tests[1].test_type = "encryption"
    /\ tests[1].error_message = Lit("RSA encryption failed: Encryption failed")

\* C3: an encryption request (also the default one) against a Dilithium or
\* Falcon algorithm is stored as a successful signing row, and no row of a
\* signature-only algorithm has test_type = encryption.
C3_EncryptionRemapped ==
    /\ \A i \in DOMAIN tests :
          algorithms[tests[i].algorithm_id].category \in SignatureOnly
             => tests[i].test_type # "encryption"
    /\ (ReqFound /\ ReqCategory \in SignatureOnly /\ Req.test_type \in {"encryption", ""})
          => /\ response.test_id = Len(tests) /\ Len(tests) > 0
             /\ tests[response.test_id].test_type = "signing"
             /\ tests[response.test_id].success
             /\ tests[response.test_id].algorithm_id = Req.algorithm_id

C3_Witness ==
    /\ ReqFound /\ ReqCategory = "Falcon" /\ Req.test_type = "encryption"
    /\ Len(tests) = 1 /\ tests[1].test_type = "signing" /\ tests[1].success

---------------------------------------------------------------------------
(* Direct use of one instance: the calls a caller of the classes can make *)

CryptoInputs == ShortInputs \cup BoundaryInputs \cup {DefaultInput, LongInput}

NoEnvelope == [kind |-> "none", msg |-> None, env |-> None, fresh |-> FALSE]
Envelope(kind, m, env) == [kind |-> kind, msg |-> Text(m), env |-> env, fresh |-> TRUE]

\* the last call: its arguments (for verify: how the envelope was changed and
\* whether the message is the signed one) and its outcome
Ret(op, test_type, input, tamper, same_message, r) ==
    [op |-> op, test_type |-> test_type, input |-> input, tamper |-> tamper,
     same_message |-> same_message, ok |-> r.ok, val |-> r.val, err |-> r.err]
NoCall == Ret("", "", None, "", TRUE, Raise(""))

\* signature bytes no sign call of the model draws
ForgedSignature == B64Encode(Rand(1, 0))

Tampers == {"none", "altered", "stripped", "not_json"}

\* what a caller can hand to verify in place of the envelope sign returned
Tamper(env, how) ==
    CASE how = "none" -> env
      [] how = "altered" -> JsonDumps([JsonLoads(env) EXCEPT !.signature = ForgedSignature])
      [] how = "stripped" ->
            JsonDumps([f \in DOMAIN JsonLoads(env) \ {"signature"} |-> JsonLoads(env)[f]])
      [] how = "not_json" -> Text(<<97>>)

CallGenerateKeys(rnd) ==
    LET c == generate_keys(crypto_impl, rnd)
    IN  /\ crypto_impl' = c.self
        /\ held' = [held EXCEPT !.fresh = FALSE]
        /\ ret' = Ret("generate_keys", "", None, "", TRUE, c.ret)

CallEncrypt(m, rnd) ==
    LET c == encrypt(crypto_impl, m, rnd)
    IN  /\ crypto_impl' = c.self
        /\ held' = IF c.ret.ok THEN Envelope("ciphertext", m, c.ret.val) ELSE NoEnvelope
        /\ ret' = Ret("encrypt", "", Text(m), "", TRUE, c.ret)

CallDecrypt(rnd) ==
    /\ held.kind = "ciphertext"
    /\ LET c == decrypt(crypto_impl, held.env, rnd)
       IN  /\ crypto_impl' = c.self
           /\ ret' = Ret("decrypt", "", held.msg, "", TRUE, c.ret)
    /\ UNCHANGED held

CallSign(m, rnd) ==
    /\ HasSign(crypto_impl.category)
    /\ LET c == sign(crypto_impl, m, rnd)
       IN  /\ crypto_impl' = c.self
           /\ held' = IF c.ret.ok THEN Envelope("signature", m, c.ret.val) ELSE NoEnvelope
           /\ ret' = Ret("sign", "", Text(m), "", TRUE, c.ret)

\* a message that differs from m
OtherMessage(m) == m \o <<97>>

CallVerify(same, how) ==
    /\ HasVerify(crypto_impl.category)
    /\ held.kind = "signature"
    /\ how # "none" => IsJson(held.env)
    /\ LET m == IF same THEN held.msg.chars ELSE OtherMessage(held.msg.chars)
           c == verify(crypto_impl, m, Tamper(held.env, how))
       IN  /\ crypto_impl' = c.self
           /\ ret' = Ret("verify", "", held.msg, how, same, c.ret)
    /\ UNCHANGED held

\* strings a caller can hand to decrypt or verify that this instance did not
\* produce: text that is not an envelope, and the envelope of another AES key
GivenStrings ==
    {Text(<<97>>),
     AES_encrypt([Instance("AES", 128) EXCEPT !.key = NumKeys + 1], <<97>>, NoDraw).ret.val}

\* decrypt of a string the caller brings, whatever keys the instance holds
CallDecryptGiven(c, rnd) ==
    LET r == decrypt(crypto_impl, c, rnd)
    IN  /\ crypto_impl' = r.self
        /\ ret' = Ret("decrypt_given", "", c, "given", FALSE, r.ret)
        /\ UNCHANGED held

\* verify of a string the caller brings, whatever keys the instance holds
CallVerifyGiven(m, sig) ==
    /\ HasVerify(crypto_impl.category)
    /\ LET r == verify(crypto_impl, m, sig)
       IN  /\ crypto_impl' = r.self
           /\ ret' = Ret("verify_given", "", sig, "given", FALSE, r.ret)
    /\ UNCHANGED held

\* the harness's dispatch chain, which runs on a new instance of the class
CallRunTest(req_type, m, r1, r2) ==
    LET test_type == AutoCorrect(crypto_impl.category, req_type)
    IN  /\ Supported(crypto_impl.category, test_type)
        /\ crypto_impl = Instance(crypto_impl.category, crypto_impl.key_size)
        /\ held = NoEnvelope
        /\ ret = NoCall
        /\ ret' = Ret("run_test", test_type, Text(m), "", TRUE,
                      RunTest(Instance(crypto_impl.category, crypto_impl.key_size),
                              test_type, m, r1, r2))
        /\ UNCHANGED <<crypto_impl, held>>

InitCrypto ==
    /\ algorithms = <<>>
    /\ tests = <<>>
    /\ response = NoResponse
    /\ cmp = [pc |-> "idle"]
    /\ crypto_impl \in {Instance(all_algorithms[i].category, all_algorithms[i].key_size) :
                          i \in DOMAIN all_algorithms}
    /\ held = NoEnvelope
    /\ ret = NoCall
    /\ reports = <<>>
    /\ now = 0
    /\ users = <<>>
    /\ inflight = <<>>

\* verify is called on the held envelope or on a changed one, with the signed
\* message or with another one
NextCrypto ==
    \/ \E rnd \in FirstDraws : CallGenerateKeys(rnd) /\ UNCHANGED <<algorithms, tests, response, cmp, reports, now, users, inflight>>
    \/ \E m \in CryptoInputs, rnd \in FirstDraws :
          CallEncrypt(m, rnd) /\ UNCHANGED <<algorithms, tests, response, cmp, reports, now, users, inflight>>
    \/ \E rnd \in SecondDraws : CallDecrypt(rnd) /\ UNCHANGED <<algorithms, tests, response, cmp, reports, now, users, inflight>>
    \/ \E m \in CryptoInputs, rnd \in FirstDraws :
          CallSign(m, rnd) /\ UNCHANGED <<algorithms, tests, response, cmp, reports, now, users, inflight>>
    \/ \E same \in BOOLEAN, how \in Tampers :
          CallVerify(same, how) /\ UNCHANGED <<algorithms, tests, response, cmp, reports, now, users, inflight>>
    \/ \E tt \in OperationKinds, m \in CryptoInputs, r1 \in FirstDraws, r2 \in SecondDraws :
          CallRunTest(tt, m, r1, r2) /\ UNCHANGED <<algorithms, tests, response, cmp, reports, now, users, inflight>>
    \/ \E c \in GivenStrings, rnd \in SecondDraws :
          CallDecryptGiven(c, rnd) /\ UNCHANGED <<algorithms, tests, response, cmp, reports, now, users, inflight>>
    \/ \E m \in ShortInputs, sig \in GivenStrings :
          CallVerifyGiven(m, sig) /\ UNCHANGED <<algorithms, tests, response, cmp, reports, now, users, inflight>>

SpecCrypto == InitCrypto /\ [][NextCrypto]_vars

---------------------------------------------------------------------------
(* Properties of the classes *)

Category == crypto_impl.category

\* s without its trailing spaces
WithoutTrailingSpaces(s) ==
    LET n == CHOOSE k \in 0..Len(s) :
                 /\ k = 0 \/ s[k] # SPACE
                 /\ \A j \in (k + 1)..Len(s) : s[j] = SPACE
    IN  SubSeq(s, 1, n)

\* what decrypt(encrypt(m)) is to return
RoundTripOf(category, m) == IF category = "ECC" THEN WithoutTrailingSpaces(m) ELSE m

\* the input is too long for RSA with OAEP, so that encrypt itself fails
TooLongForRSA(m) ==
    Category = "RSA" /\ Len(Utf8Encode(m)) > RSAMaxPlain(crypto_impl.key_size)

\* C8: on an RSA, ECC or AES instance, decrypt of the envelope the instance's
\* encrypt produced for m, with no key generation in between, returns m (for
\* ECC: m without its trailing spaces); the harness's decryption run on these
\* classes therefore returns that text for every input encrypt accepts.
C8_RoundTrip ==
    /\ (ret.op = "decrypt" /\ held.fresh /\ Category \in {"RSA", "ECC", "AES"})
          => (ret.ok /\ ret.val = Text(RoundTripOf(Category, held.msg.chars)))
    /\ (ret.op = "run_test" /\ ret.test_type = "decryption"
          /\ Category \in {"RSA", "ECC", "AES"})
          => /\ ret.ok = ~TooLongForRSA(ret.input.chars)
             /\ ret.ok => ret.val = Text(RoundTripOf(Category, ret.input.chars))

\* an ECC round trip of an input that ends in a space came back shorter
C8_Witness ==
    /\ ret.op = "decrypt" /\ held.fresh /\ Category = "ECC" /\ ret.ok
    /\ held.msg.chars # <<>>
    /\ held.msg.chars[Len(held.msg.chars)] = SPACE
    /\ Len(ret.val.chars) < Len(held.msg.chars)

\* C9: on a Dilithium or Falcon instance verify(m, sign(m)) returns true, and
\* the harness's verification run on these classes reports verified = true.
C9_SignThenVerify ==
    /\ (ret.op = "verify" /\ ret.tamper = "none" /\ ret.same_message
          /\ Category \in SignatureOnly)
          => (ret.ok /\ ret.val = PyTrue)
    /\ (ret.op = "run_test" /\ ret.test_type = "verification" /\ Category \in SignatureOnly)
          => (ret.ok /\ ret.val = Verified(PyTrue))

C9_Witness ==
    /\ ret.op = "verify" /\ ret.tamper = "none" /\ ret.same_message
    /\ Category = "Dilithium" /\ held.msg.chars # <<>> /\ ret.val = PyTrue

\* the envelope handed to verify has both fields, and either its signature
\* bytes were altered or it is given with a message it was not made for
TamperedCall ==
    /\ ret.op = "verify" /\ Category \in SignatureOnly
    /\ ret.tamper \in {"none", "altered"}
    /\ ret.tamper = "altered" \/ ~ret.same_message

\* C10 as claimed: verify returns false, and does not raise, on a structurally
\* valid envelope that was tampered with.
C10_TamperedIsRejected == TamperedCall => (ret.ok /\ ret.val = PyFalse)

\* C10 as the code has it: verify on an instance that holds keys does not raise
\* on a structurally valid envelope, and it checks the envelope's shape only:
\* it returns true for a tampered envelope that has its "signature" and
\* "algorithm" fields, and false when the "signature" field is missing.
C10_TamperedIsAccepted ==
    /\ TamperedCall => (ret.ok /\ ret.val = PyTrue)
    /\ (ret.op = "verify" /\ Category \in SignatureOnly /\ ret.tamper = "stripped")
          => (ret.ok /\ ret.val = PyFalse)

C10_Witness ==
    /\ TamperedCall /\ Category = "Falcon" /\ ret.tamper = "altered"
    /\ ~ret.same_message /\ ret.val = PyTrue

---------------------------------------------------------------------------
(* Properties of compare_algorithms *)

\* the request got past parsing
Served == cmp.pc \in {"loop", "done"}
Answered == cmp.pc = "done"

RequestedIds == {cmp.algorithm_ids[k] : k \in DOMAIN cmp.algorithm_ids}
RowIds == [k \in DOMAIN cmp.comparison |-> cmp.comparison[k].algorithm]
ResolvedIds == SelectSeq(cmp.algorithm_ids, AlgorithmFound)

\* C4 as claimed: a request that holds fewer than 2 distinct algorithms (an
\* empty list, one entry, or one entry repeated) is answered with the
\* insufficient-input error and no rows.
C4_FewerThanTwoDistinctRefused ==
    (Answered /\ Cardinality(RequestedIds) < 2)
       => /\ cmp.status = 400
          /\ cmp.error = "At least 2 algorithms required for comparison"
          /\ cmp.comparison = <<>>

\* C5 as claimed: a request of 2 or more entries is answered with exactly one
\* row per requested entry, in order, unresolvable entries included.
C5_OneRowPerRequested ==
    (Answered /\ Len(cmp.algorithm_ids) >= 2) => RowIds = cmp.algorithm_ids

NotForEncryption(category) ==
    IF category = "Dilithium"
    THEN "Dilithium is a signature algorithm, not for encryption. Use sign() method instead."
    ELSE "Falcon is a signature algorithm, not for encryption. Use sign() method instead."

\* the row of a class without encryption: no performance, success false and
\* the message of the class's encrypt
RefusalRow(row) ==
    /\ row.performance = None
    /\ row.success = FALSE
    /\ row.error = NotForEncryption(algorithms[row.algorithm].category)

\* C6: in an answered comparison every Dilithium or Falcon algorithm of the
\* request has a row with performance null, success false and the explanatory
\* message of its encrypt, and every other resolved algorithm of the request
\* still has its row, in request order.
C6_SignatureOnlyRows ==
    (Answered /\ cmp.status = 200)
       => /\ RowIds = ResolvedIds
          /\ \A k \in DOMAIN cmp.comparison :
                algorithms[cmp.comparison[k].algorithm].category \in SignatureOnly
                   => RefusalRow(cmp.comparison[k])

\* a refusal row is followed by the measured row of another algorithm
C6_Witness ==
    /\ Answered /\ cmp.status = 200 /\ Len(cmp.comparison) = 2
    /\ algorithms[cmp.comparison[1].algorithm].category = "Dilithium"
    /\ RefusalRow(cmp.comparison[1])
    /\ cmp.comparison[2].performance # None
    /\ cmp.comparison[2].success

Ops == [k \in DOMAIN cmp.calls |-> cmp.calls[k].op]

\* the calls were made on one instance, created for this algorithm: each call
\* starts from the instance as the call before left it
OneInstance ==
    /\ cmp.calls[1].before.public_key = NoKey
    /\ cmp.calls[1].before.private_key = NoKey
    /\ cmp.calls[1].before.key = NoKey
    /\ \A k \in 1..(Len(cmp.calls) - 1) : cmp.calls[k + 1].before = cmp.calls[k].after

IsPrefix(s, t) == Len(s) <= Len(t) /\ \A k \in DOMAIN s : s[k] = t[k]

---------------------------------------------------------------------------
(* Properties of capabilities and of the key lifecycle *)

NotForDecryption(category) ==
    IF category = "Dilithium"
    THEN "Dilithium is a signature algorithm, not for decryption. Use verify() method instead."
    ELSE "Falcon is a signature algorithm, not for decryption. Use verify() method instead."

KeyMaterial(self) == <<self.public_key, self.private_key, self.key>>
Keyless(self) == KeyMaterial(self) = <<NoKey, NoKey, NoKey>>

\* a step on a Dilithium or Falcon instance: what encrypt and decrypt do
SignatureOnlyRefusesStep ==
    Category \in SignatureOnly
       => /\ ret'.op = "encrypt"
                => /\ ~ret'.ok
                   /\ ret'.err = NotForEncryption(Category)
                   /\ crypto_impl' = crypto_impl
          /\ ret'.op \in {"decrypt", "decrypt_given"}
                => /\ ~ret'.ok
                   /\ ret'.err = NotForDecryption(Category)
                   /\ crypto_impl' = crypto_impl
          /\ (ret'.op = "run_test" /\ ret'.test_type = "decryption")
                => (~ret'.ok /\ ret'.err = NotForEncryption(Category))

\* C11: every encrypt and decrypt call on a Dilithium or Falcon instance,
\* with or without keys and whatever the argument, raises the error that says
\* the class is a signature algorithm, and leaves the instance as it was; the
\* harness's decryption run on these classes fails with the same error.
C11_SignatureOnlyRefuses == [][SignatureOnlyRefusesStep]_vars

\* decrypt was refused on a Falcon instance that holds keys
C11_Witness ==
    /\ ret.op = "decrypt_given" /\ Category = "Falcon"
    /\ ~Keyless(crypto_impl)
    /\ ~ret.ok /\ ret.err = NotForDecryption("Falcon")

MissingKeyErrors ==
    {"RSA decryption failed: Private key not available for decryption",
     "ECC decryption failed: Private key not available for decryption",
     "AES decryption failed: AES key not available for decryption",
     "Kyber decryption failed: Private key not available for decryption",
     "ECC verification failed: Public key not available for verification",
     "Dilithium verification failed: Public key not available for verification",
     "Falcon verification failed: Public key not available for verification"}

UseCalls == {"encrypt", "decrypt", "decrypt_given", "sign", "verify", "verify_given"}

\* key material changes only in generate_keys or in an encrypt or sign call on
\* a keyless instance, and no other call changes the keys an instance holds
KeysChangeOnlyByGeneration ==
    /\ KeyMaterial(crypto_impl') # KeyMaterial(crypto_impl)
          => \/ ret'.op = "generate_keys"
             \/ ret'.op \in {"encrypt", "sign"} /\ Keyless(crypto_impl)
    /\ (ret'.op \in UseCalls /\ ~Keyless(crypto_impl))
          => KeyMaterial(crypto_impl') = KeyMaterial(crypto_impl)

\* the call of this step is a decrypt or verify on a keyless instance
KeylessRead ==
    /\ ret'.op \in {"decrypt", "decrypt_given", "verify", "verify_given"}
    /\ Keyless(crypto_impl)

\* a step in which every keyless decrypt or verify ends in a missing-key error
KeylessReadIsMissingKeyStep ==
    /\ KeysChangeOnlyByGeneration
    /\ KeylessRead
          => /\ ~ret'.ok
             /\ ret'.err \in MissingKeyErrors
             /\ Keyless(crypto_impl')

\* C13 as claimed: key material is created only by generate_keys or by a
\* first encrypt or sign, later calls leave it unchanged, and decrypt or verify
\* on a keyless instance of any class fails with a missing-key error and
\* leaves the instance keyless.
C13_KeylessReadIsMissingKey == [][KeylessReadIsMissingKeyStep]_vars

\* a step in which a keyless decrypt or verify fails with the error of its class
KeyLifecycleStep ==
    /\ KeysChangeOnlyByGeneration
    /\ KeylessRead
          => /\ ~ret'.ok
             /\ Keyless(crypto_impl')
             /\ IF Category \in SignatureOnly /\ ret'.op = "decrypt_given"
                THEN ret'.err = NotForDecryption(Category)
                ELSE ret'.err \in MissingKeyErrors

\* C13 as the code has it: the same, except that decrypt on a keyless
\* Dilithium or Falcon instance fails with the signature-algorithm error of
\* these classes, not with a missing-key error.
C13_KeyLifecycle == [][KeyLifecycleStep]_vars

\* decrypt failed for the missing key on an AES instance that is still keyless
C13_Witness ==
    /\ ret.op = "decrypt_given" /\ Category = "AES"
    /\ Keyless(crypto_impl)
    /\ ~ret.ok /\ ret.err = "AES decryption failed: AES key not available for decryption"

---------------------------------------------------------------------------
(* Properties of the harness: how unsupported operations are reported *)

\* how the last test_algorithm request was answered
Report ==
    [status |-> response.status, message |-> response.message,
     recorded |-> response.test_id # 0]

\* the answer to a request whose primitive raised: "Test failed" with the
\* exception's text, and a failed row
PrimitiveFailure == [status |-> 400, message |-> "Test failed", recorded |-> TRUE]

\* the answer of the dispatch chain's else branch: no row
Unsupported == [status |-> 400, message |-> "", recorded |-> FALSE]

SigningOnAES == ReqFound /\ ReqCategory = "AES" /\ Req.test_type = "signing"

\* the one request that reaches encrypt of a signature-only class
DecryptionOnSignatureOnly ==
    ReqFound /\ ReqCategory \in SignatureOnly /\ Req.test_type = "decryption"

\* C12 as claimed: a signing request against AES is reported as the refusal
\* of encrypt by a signature-only class is reported.
C12_SigningOnAESLikeEncryptRefusal ==
    SigningOnAES => Report = PrimitiveFailure

\* C12 as the code has it: a signing request against AES is answered 400
\* "Unsupported test type" by the dispatch chain and stores no row, while the
\* refusal of encrypt by a Dilithium or Falcon instance is an exception that
\* the harness answers 400 "Test failed" and stores as a failed row.
C12_SigningOnAESUnsupported ==
    /\ SigningOnAES
          => /\ Report = Unsupported
             /\ response.error = "Unsupported test type"
    /\ DecryptionOnSignatureOnly
          => /\ Report = PrimitiveFailure
             /\ response.error = NotForEncryption(ReqCategory)
             /\ ~tests[response.test_id].success
             /\ tests[response.test_id].error_message = Lit(response.error)

C12_Witness ==
    /\ SigningOnAES /\ Report = Unsupported
    /\ algorithms[Req.algorithm_id].name = "AES-128"

---------------------------------------------------------------------------
(* Properties of seeding *)

CountOf(category) ==
    Cardinality({i \in DOMAIN algorithms : algorithms[i].category = category})

\* two RSA, two ECC, two AES, three Kyber, two Dilithium and two Falcon
\* entries, no two with the same name
SeedFamilies ==
    /\ CountOf("RSA") = 2 /\ CountOf("ECC") = 2 /\ CountOf("AES") = 2
    /\ CountOf("Kyber") = 3 /\ CountOf("Dilithium") = 2 /\ CountOf("Falcon") = 2
    /\ \A i, j \in DOMAIN algorithms : algorithms[i].name = algorithms[j].name => i = j

\* C18 as claimed: a seeded catalog holds 17 entries: two RSA, two ECC, two
\* AES, three KEM, two Dilithium and two Falcon, with unique names.
C18_SeedsSeventeen ==
    algorithms # <<>> => (Len(algorithms) = 17 /\ SeedFamilies)

\* C18 as the code has it: seeding an empty catalog inserts the fixed list of
\* 13 entries: two RSA, two ECC, two AES, three Kyber, two Dilithium and two
\* Falcon, with unique names, and answers 201.
C18_SeedsThirteen ==
    /\ algorithms # <<>> => (Len(algorithms) = 13 /\ SeedFamilies)
    /\ (response.route = "seed" /\ response.status = 201) => algorithms # <<>>

C18_Witness ==
    /\ response.route = "seed" /\ response.status = 201
    /\ Len(algorithms) = 13 /\ SeedFamilies

\* a seed request on a catalog that is not empty changes nothing and says so
ReseedStep ==
    (response'.route = "seed" /\ algorithms # <<>>)
       => /\ algorithms' = algorithms
          /\ tests' = tests
          /\ response'.status = 200
          /\ response'.message = "Algorithms already seeded"

\* C19: seeding a catalog that holds an entry leaves the catalog as it was and
\* answers that the algorithms were already seeded, with nothing inserted; so
\* seeding twice leaves the catalog of seeding once.
C19_ReseedIsNoOp == [][ReseedStep]_vars

\* the second seed was answered and the catalog is the one the first seed wrote
C19_Witness ==
    /\ response.route = "seed" /\ response.status = 200
    /\ algorithms = all_algorithms

---------------------------------------------------------------------------
(* The tables behind the record and report routes (models.py, tests.py, *)
(* reports.py)                                                            *)

MaxRows == 2        \* rows the table "tests" holds under these routes
MaxReports == 1     \* rows the table "reports" holds
MaxRepeats == 2     \* invocations of one report generation in a row
MaxNow == 1         \* days the clock advances
MaxMillis == 2      \* execution times a run is measured at

\* a row db.session.delete removed
Deleted == [tag |-> "deleted"]
Live(row) == row # Deleted

\* the primary keys a table holds
Ids(table) == {i \in 1..Len(table) : Live(table[i])}

\* the table after a commit: the next insert takes max(id) + 1
RECURSIVE Trim(_)
Trim(table) ==
    IF table # <<>> /\ ~Live(table[Len(table)])
    THEN Trim(SubSeq(table, 1, Len(table) - 1))
    ELSE table

\* db.session.delete(row) for each id, and db.session.commit()
Delete(table, ids) ==
    Trim([i \in 1..Len(table) |-> IF i \in ids THEN Deleted ELSE table[i]])

\* query.filter_by(id=id, user_id=current_user_id).first()
Owned(table, id, user) == id \in Ids(table) /\ table[id].user_id = user

\* a route's answer: the request, the status, the JSON message or error and
\* the JSON body
Reply(route, req, status, message, error, body) ==
    [route |-> route, req |-> req, status |-> status, message |-> message,
     error |-> error, body |-> body]

Range(s) == {s[i] : i \in 1..Len(s)}

get_test(user, test_id) ==
    LET req == [user |-> user, id |-> test_id]
    IN  /\ response' = IF Owned(tests, test_id, user)
                       THEN Reply("get_test", req, 200, "", "", tests[test_id])
                       ELSE Reply("get_test", req, 404, "", "Test not found", None)
        /\ UNCHANGED <<algorithms, tests, reports>>

delete_test(user, test_id) ==
    LET req == [user |-> user, id |-> test_id]
    IN  /\ UNCHANGED <<algorithms, reports>>
        /\ IF Owned(tests, test_id, user)
           THEN /\ tests' = Delete(tests, {test_id})
                /\ response' = Reply("delete_test", req, 200,
                                     "Test deleted successfully", "", None)
           ELSE /\ response' = Reply("delete_test", req, 404, "", "Test not found", None)
                /\ UNCHANGED tests

\* a bulk delete that removes the caller's rows among those named
bulk_delete_tests_lenient(user, test_ids) ==
    LET req == [user |-> user, ids |-> test_ids]
        found == {id \in Range(test_ids) : Owned(tests, id, user)}
    IN  /\ UNCHANGED <<algorithms, reports>>
        /\ IF test_ids = <<>>
           THEN /\ response' = Reply("bulk_delete", req, 400, "", "No test IDs provided", None)
                /\ UNCHANGED tests
           ELSE /\ tests' = Delete(tests, found)
                /\ response' = Reply("bulk_delete", req, 200, "Successfully deleted tests",
                                     "", [deleted_count |-> Cardinality(found)])

\* a bulk deletion that compares the rows found with the distinct ids named
bulk_delete_tests_distinct(user, test_ids) ==
    LET req == [user |-> user, ids |-> test_ids]
        found == {id \in Range(test_ids) : Owned(tests, id, user)}
    IN  /\ UNCHANGED <<algorithms, reports>>
        /\ IF found # Range(test_ids) \/ test_ids = <<>>
           THEN /\ response' = Reply("bulk_delete", req, 404, "",
                                     "Some tests not found or access denied", None)
                /\ UNCHANGED tests
           ELSE /\ tests' = Delete(tests, found)
                /\ response' = Reply("bulk_delete", req, 200, "Successfully deleted tests",
                                     "", [deleted_count |-> Cardinality(found)])

bulk_delete_tests(user, test_ids) ==
    LET req == [user |-> user, ids |-> test_ids]
        found == {id \in Range(test_ids) : Owned(tests, id, user)}
    IN  /\ UNCHANGED <<algorithms, reports>>
        /\ IF test_ids = <<>>
           THEN /\ response' = Reply("bulk_delete", req, 400, "", "No test IDs provided", None)
                /\ UNCHANGED tests
           ELSE IF Cardinality(found) # Len(test_ids)
           THEN /\ response' = Reply("bulk_delete", req, 404, "",
                                     "Some tests not found or access denied", None)
                /\ UNCHANGED tests
           ELSE /\ tests' = Delete(tests, found)
                /\ response' = Reply("bulk_delete", req, 200, "Successfully deleted tests",
                                     "", [deleted_count |-> Cardinality(found)])

get_report(user, report_id) ==
    LET req == [user |-> user, id |-> report_id]
    IN  /\ response' = IF Owned(reports, report_id, user)
                       THEN Reply("get_report", req, 200, "", "", reports[report_id])
                       ELSE Reply("get_report", req, 404, "", "Report not found", None)
        /\ UNCHANGED <<algorithms, tests, reports>>

\* a delete that looks the report up by id alone
delete_report_any(user, report_id) ==
    LET req == [user |-> user, id |-> report_id]
    IN  /\ UNCHANGED <<algorithms, tests>>
        /\ IF report_id \in Ids(reports)
           THEN /\ reports' = Delete(reports, {report_id})
                /\ response' = Reply("delete_report", req, 200,
                                     "Report deleted successfully", "", None)
           ELSE /\ response' = Reply("delete_report", req, 404, "", "Report not found", None)
                /\ UNCHANGED reports

delete_report(user, report_id) ==
    LET req == [user |-> user, id |-> report_id]
    IN  /\ UNCHANGED <<algorithms, tests>>
        /\ IF Owned(reports, report_id, user)
           THEN /\ reports' = Delete(reports, {report_id})
                /\ response' = Reply("delete_report", req, 200,
                                     "Report deleted successfully", "", None)
           ELSE /\ response' = Reply("delete_report", req, 404, "", "Report not found", None)
                /\ UNCHANGED reports

---------------------------------------------------------------------------
(* Report generation (reports.py).  Times are integers; a rounded value  *)
(* round(x, 2) is held in hundredths.                                    *)

RECURSIVE Sum(_)
Sum(s) == IF s = <<>> THEN 0 ELSE s[1] + Sum(Tail(s))

Min(s) == CHOOSE x \in Range(s) : \A y \in Range(s) : x <= y
Max(s) == CHOOSE x \in Range(s) : \A y \in Range(s) : x >= y

\* round(num / den, 2), in hundredths: to nearest, a tie to the even digit
Round2(num, den) ==
    LET q == (100 * num) \div den
        r == (100 * num) % den
    IN  IF 2 * r < den THEN q
        ELSE IF 2 * r > den THEN q + 1
        ELSE IF q % 2 = 0 THEN q ELSE q + 1

\* round((sum((t - avg) ** 2) / n) ** 0.5, 2), in hundredths
StdDeviation(execution_times) ==
    LET n == Len(execution_times)
        squares == [i \in 1..n |-> execution_times[i] * execution_times[i]]
        v == n * Sum(squares) - Sum(execution_times) * Sum(execution_times)
    IN  CHOOSE k \in 0..(100 * Max(execution_times)) :
            /\ (k = 0 \/ (2 * k - 1) * (2 * k - 1) * n * n <= 40000 * v)
            /\ 40000 * v < (2 * k + 1) * (2 * k + 1) * n * n

\* the ids of a set in ascending order: the order .all() returns rows in
RECURSIVE Ascending(_)
Ascending(S) ==
    IF S = {} THEN <<>>
    ELSE LET x == CHOOSE y \in S : \A z \in S : y <= z
         IN  <<x>> \o Ascending(S \ {x})

\* Algorithm.query.filter(Algorithm.id.in_(algorithm_ids)).all()
AlgorithmsIn(algorithm_ids) ==
    Ascending({id \in Range(algorithm_ids) : AlgorithmFound(id)})

\* a query that leaves the date out
TestsWhenever(table, user, algorithm_id, since_date) ==
    SelectSeq(table, LAMBDA row : /\ Live(row)
                                  /\ row.user_id = user
                                  /\ row.algorithm_id = algorithm_id)

\* Test.query.filter(user_id, algorithm_id, created_at >= since_date).all()
TestsSince(table, user, algorithm_id, since_date) ==
    SelectSeq(table, LAMBDA row : /\ Live(row)
                                  /\ row.user_id = user
                                  /\ row.algorithm_id = algorithm_id
                                  /\ row.created_at >= since_date)

Successful(rows) == SelectSeq(rows, LAMBDA row : row.success)

ExecutionTimes(rows) == [i \in 1..Len(rows) |-> rows[i].execution_time]

\* test_types[test.test_type] = test_types.get(test.test_type, 0) + 1
TestDistribution(rows) ==
    [k \in {row.test_type : row \in Range(rows)} |->
        Cardinality({i \in 1..Len(rows) : rows[i].test_type = k})]

NoMetrics ==
    [total_tests |-> 0, avg_execution_time_ms |-> 0, min_execution_time_ms |-> 0,
     max_execution_time_ms |-> 0, std_deviation |-> 0]

\* metrics that count the stored reports among the samples
PerformanceMetricsCounting(rows) ==
    [NoMetrics EXCEPT !.total_tests = Len(rows) + Len(reports)]

\* "metrics" of one algorithm in the performance report
PerformanceMetrics(rows) ==
    IF rows = <<>> THEN NoMetrics
    ELSE LET execution_times == ExecutionTimes(rows)
         IN  [total_tests |-> Len(rows),
              avg_execution_time_ms |-> Round2(Sum(execution_times), Len(execution_times)),
              min_execution_time_ms |-> 100 * Min(execution_times),
              max_execution_time_ms |-> 100 * Max(execution_times),
              std_deviation |-> IF Len(execution_times) > 1
                                THEN StdDeviation(execution_times) ELSE 0]

\* algorithm_performance: one entry per algorithm found, over the caller's
\* successful rows since since_date
AlgorithmPerformance(table, user, algorithm_ids, since_date) ==
    LET found == AlgorithmsIn(algorithm_ids)
    IN  [i \in 1..Len(found) |->
            LET rows == Successful(TestsSince(table, user, found[i], since_date))
            IN  [algorithm_id |-> found[i],
                 metrics |-> PerformanceMetrics(rows),
                 test_distribution |-> TestDistribution(rows)]]

\* sorted(entries, key=avg_execution_time_ms): stable; an entry is held as
\* its algorithm and its key
RECURSIVE sorted(_)
sorted(entries) ==
    IF entries = <<>> THEN <<>>
    ELSE LET rest == sorted(SubSeq(entries, 1, Len(entries) - 1))
             x == entries[Len(entries)]
             k == Cardinality({i \in 1..Len(rest) : rest[i].key <= x.key})
         IN  SubSeq(rest, 1, k) \o <<x>> \o SubSeq(rest, k + 1, Len(rest))

WithData(entries) == SelectSeq(entries, LAMBDA e : e.metrics.total_tests > 0)

QuantumSafe(entries) ==
    SelectSeq(entries, LAMBDA e : algorithms[e.algorithm_id].quantum_safe)

\* report_content of the performance report
PerformanceContent(table, user, algorithm_ids, days, clock) ==
    LET since_date == clock - days
        algorithm_performance == AlgorithmPerformance(table, user, algorithm_ids, since_date)
        with_data == WithData(algorithm_performance)
        ranked_algorithms ==
            sorted([i \in 1..Len(with_data) |->
                       [algorithm_id |-> with_data[i].algorithm_id,
                        key |-> with_data[i].metrics.avg_execution_time_ms]])
    IN  [analysis_period |-> [days |-> days, start_date |-> since_date, end_date |-> clock],
         algorithms_analyzed |-> Len(algorithm_performance),
         performance_data |-> algorithm_performance,
         performance_ranking |-> [i \in 1..Len(ranked_algorithms) |->
                                     ranked_algorithms[i].algorithm_id],
         summary_statistics |->
            [total_tests |-> Sum([i \in 1..Len(algorithm_performance) |->
                                     algorithm_performance[i].metrics.total_tests]),
             algorithms_with_data |-> Len(WithData(algorithm_performance)),
             quantum_safe_count |-> Len(QuantumSafe(algorithm_performance))]]

\* recommendations of the performance report: each sentence is held as its
\* kind and the algorithm or the count it names
PerformanceRecommendations(content) ==
    LET ranked_algorithms == content.performance_ranking
        quantum_safe_algos == QuantumSafe(content.performance_data)
    IN  IF ranked_algorithms # <<>>
        THEN <<[kind |-> "best_performing", algorithm_id |-> ranked_algorithms[1]]>>
             \o (IF Len(ranked_algorithms) > 1
                 THEN <<[kind |-> "consider_optimizing",
                         algorithm_id |-> ranked_algorithms[Len(ranked_algorithms)]]>>
                 ELSE <<>>)
             \o (IF quantum_safe_algos # <<>>
                 THEN <<[kind |-> "quantum_safe_found", count |-> Len(quantum_safe_algos)]>>
                 ELSE <<>>)
        ELSE <<[kind |-> "no_data"]>>

\* Report(user_id=..., report_type=..., content=..., algorithms_tested=...,
\* recommendations=...)
ReportRow(user, report_type, content, algorithms_tested, recommendations) ==
    [user_id |-> user, report_type |-> report_type, content |-> content,
     algorithms_tested |-> algorithms_tested, recommendations |-> recommendations,
     created_at |-> now]

generate_performance_report(user, algorithm_ids, days) ==
    LET req == [user |-> user, algorithm_ids |-> algorithm_ids, days |-> days]
        content == PerformanceContent(tests, user, algorithm_ids, days, now)
        report == ReportRow(user, "performance", content, algorithm_ids,
                            PerformanceRecommendations(content))
    IN  /\ UNCHANGED <<algorithms, tests>>
        /\ IF algorithm_ids = <<>>
           THEN /\ response' = Reply("performance", req, 400, "",
                                     "At least one algorithm ID is required", None)
                /\ UNCHANGED reports
           ELSE IF Len(AlgorithmsIn(algorithm_ids)) # Len(algorithm_ids)
           THEN /\ response' = Reply("performance", req, 404, "",
                                     "Some algorithms not found", None)
                /\ UNCHANGED reports
           ELSE /\ reports' = Append(reports, report)
                /\ response' = Reply("performance", req, 201,
                                     "Performance report generated successfully", "",
                                     [id |-> Len(reports) + 1, report |-> report])

\* Test.query.filter_by(user_id=..., algorithm_id=...), whatever the date
TestsOf(table, user, algorithm_id) ==
    SelectSeq(table, LAMBDA row : /\ Live(row)
                                  /\ row.user_id = user
                                  /\ row.algorithm_id = algorithm_id)

\* success_rate >= percent, for success_rate = successful / total * 100, or
\* 0 without rows; the rate is compared before it is rounded
RateAtLeast(successful_tests, total_tests, percent) ==
    total_tests > 0 /\ successful_tests * 100 >= percent * total_tests

\* a table of levels whose buckets begin above 95 and above 80
SecurityLevelAbove(quantum_safe, successful_tests, total_tests) ==
    LET Above(percent) ==
            total_tests > 0 /\ successful_tests * 100 > percent * total_tests
    IN  IF quantum_safe
        THEN IF Above(95) THEN "high" ELSE IF Above(80) THEN "medium-high" ELSE "medium"
        ELSE IF Above(95) THEN "medium" ELSE IF Above(80) THEN "medium-low" ELSE "low"

\* security_level from quantum_safe and the success rate
SecurityLevel(quantum_safe, successful_tests, total_tests) ==
    IF quantum_safe
    THEN IF RateAtLeast(successful_tests, total_tests, 95) THEN "high"
         ELSE IF RateAtLeast(successful_tests, total_tests, 80) THEN "medium-high"
         ELSE "medium"
    ELSE IF RateAtLeast(successful_tests, total_tests, 95) THEN "medium"
         ELSE IF RateAtLeast(successful_tests, total_tests, 80) THEN "medium-low"
         ELSE "low"

\* the entry of algorithm_security_analysis for an algorithm, from its two
\* counts
SecurityEntry(id, total_tests, successful_tests) ==
    [algorithm_id |-> id,
     test_results |-> [total_tests |-> total_tests,
                       successful_tests |-> successful_tests,
                       success_rate |-> IF total_tests > 0
                                        THEN Round2(successful_tests * 100, total_tests)
                                        ELSE 0],
     security_assessment |->
        [level |-> SecurityLevel(algorithms[id].quantum_safe, successful_tests, total_tests),
         quantum_safe |-> algorithms[id].quantum_safe]]

\* algorithm_security_analysis: one entry per algorithm of the catalog
AlgorithmSecurityAnalysis(table, user) ==
    [id \in 1..Len(algorithms) |->
        SecurityEntry(id, Len(TestsOf(table, user, id)),
                      Len(Successful(TestsOf(table, user, id))))]

\* Test.query.join(Algorithm).filter(user_id, quantum_safe == flag).count()
UserTests(table, user, quantum_safe) ==
    Cardinality({i \in Ids(table) : /\ table[i].user_id = user
                                    /\ AlgorithmFound(table[i].algorithm_id)
                                    /\ algorithms[table[i].algorithm_id].quantum_safe
                                          = quantum_safe})

\* report_content of the security report, from the analysis and the two
\* counts of the caller's rows
SecurityContentOf(analysis, user_pq_tests, user_classical_tests) ==
    LET Level(l) == Len(SelectSeq(analysis, LAMBDA e : e.security_assessment.level = l))
    IN  [security_overview |->
            [total_algorithms_analyzed |-> Len(algorithms),
             classical_algorithms |->
                Len(SelectSeq(algorithms, LAMBDA a : a.type = "classical")),
             post_quantum_algorithms |->
                Len(SelectSeq(algorithms, LAMBDA a : a.type = "post-quantum")),
             quantum_readiness_score |->
                IF user_pq_tests + user_classical_tests > 0
                THEN Round2(user_pq_tests * 100, user_pq_tests + user_classical_tests)
                ELSE 0],
         algorithm_analysis |-> analysis,
         security_distribution |->
            [high |-> Level("high"), medium_high |-> Level("medium-high"),
             medium |-> Level("medium"), medium_low |-> Level("medium-low"),
             low |-> Level("low")]]

\* report_content when no other request runs between the queries
SecurityContent(table, user) ==
    SecurityContentOf(AlgorithmSecurityAnalysis(table, user),
                      UserTests(table, user, TRUE), UserTests(table, user, FALSE))

\* recommendations whose adoption sentence changes at a rate above 25 and
\* above 50
SecurityRecommendationsAbove(table, user, content) ==
    LET user_pq_tests == UserTests(table, user, TRUE)
        total == user_pq_tests + UserTests(table, user, FALSE)
    IN  <<[kind |-> IF total = 0 \/ user_pq_tests * 100 <= 25 * total
                    THEN "low_adoption"
                    ELSE IF user_pq_tests * 100 <= 50 * total
                    THEN "moderate_adoption" ELSE "good_adoption"]>>

\* recommendations of the security report: the adoption sentence chosen by
\* pq_adoption_rate, which is compared before it is rounded, and the review of
\* the weak algorithms
SecurityRecommendations(table, user, content) ==
    LET user_pq_tests == UserTests(table, user, TRUE)
        user_classical_tests == UserTests(table, user, FALSE)
        total == user_pq_tests + user_classical_tests
        weak_algorithms ==
            SelectSeq(content.algorithm_analysis,
                      LAMBDA e : e.security_assessment.level \in {"low", "medium-low"})
    IN  <<[kind |-> IF total = 0 \/ user_pq_tests * 100 < 25 * total
                    THEN "low_adoption"
                    ELSE IF user_pq_tests * 100 < 50 * total
                    THEN "moderate_adoption" ELSE "good_adoption"]>>
        \o (IF weak_algorithms # <<>>
            THEN <<[kind |-> "review", count |-> Len(weak_algorithms)]>> ELSE <<>>)

generate_security_report(user) ==
    LET req == [user |-> user]
        content == SecurityContent(tests, user)
        report == ReportRow(user, "security", content, [i \in 1..Len(algorithms) |-> i],
                            SecurityRecommendations(tests, user, content))
    IN  /\ UNCHANGED <<algorithms, tests>>
        /\ reports' = Append(reports, report)
        /\ response' = Reply("security", req, 201,
                             "Security report generated successfully", "",
                             [id |-> Len(reports) + 1, report |-> report])

\* "performance_metrics" of one algorithm in the comparison report
ComparisonMetrics(rows) ==
    LET successful_tests == Successful(rows)
        execution_times == ExecutionTimes(successful_tests)
    IN  IF successful_tests = <<>>
        THEN [total_tests |-> Len(rows), successful_tests |-> 0, success_rate |-> 0,
              avg_execution_time_ms |-> 0, min_execution_time_ms |-> 0,
              max_execution_time_ms |-> 0]
        ELSE [total_tests |-> Len(rows),
              successful_tests |-> Len(successful_tests),
              success_rate |-> Round2(Len(successful_tests) * 100, Len(rows)),
              avg_execution_time_ms |-> Round2(Sum(execution_times), Len(execution_times)),
              min_execution_time_ms |-> 100 * Min(execution_times),
              max_execution_time_ms |-> 100 * Max(execution_times)]

\* min(entries, key=avg_execution_time_ms) and max(...): the first entry of
\* the least (greatest) key, named by its algorithm
FirstMin(entries) ==
    LET i == CHOOSE i \in 1..Len(entries) :
                 /\ \A j \in 1..Len(entries) :
                       entries[i].performance_metrics.avg_execution_time_ms
                           <= entries[j].performance_metrics.avg_execution_time_ms
                 /\ \A j \in 1..(i - 1) :
                       entries[j].performance_metrics.avg_execution_time_ms
                           # entries[i].performance_metrics.avg_execution_time_ms
    IN  entries[i].algorithm_id

FirstMax(entries) ==
    LET i == CHOOSE i \in 1..Len(entries) :
                 /\ \A j \in 1..Len(entries) :
                       entries[i].performance_metrics.avg_execution_time_ms
                           >= entries[j].performance_metrics.avg_execution_time_ms
                 /\ \A j \in 1..(i - 1) :
                       entries[j].performance_metrics.avg_execution_time_ms
                           # entries[i].performance_metrics.avg_execution_time_ms
    IN  entries[i].algorithm_id

\* report_content of the comparison report
ComparisonContent(table, user, algorithm_ids, days, clock) ==
    LET since_date == clock - days
        found == AlgorithmsIn(algorithm_ids)
        comparison_data ==
            [i \in 1..Len(found) |->
                [algorithm_id |-> found[i],
                 performance_metrics |->
                    ComparisonMetrics(TestsSince(table, user, found[i], since_date)),
                 security_properties |->
                    [quantum_safe |-> algorithms[found[i]].quantum_safe,
                     key_size |-> algorithms[found[i]].key_size,
                     algorithm_type |-> algorithms[found[i]].type,
                     category |-> algorithms[found[i]].category]]]
        algorithms_with_data ==
            SelectSeq(comparison_data, LAMBDA e : e.performance_metrics.successful_tests > 0)
        ranking ==
            sorted([i \in 1..Len(algorithms_with_data) |->
                       [algorithm_id |-> algorithms_with_data[i].algorithm_id,
                        key |-> algorithms_with_data[i].performance_metrics
                                    .avg_execution_time_ms]])
    IN  [comparison_parameters |->
            [algorithms_compared |-> Len(found), analysis_period_days |-> days,
             start_date |-> since_date, end_date |-> clock],
         algorithm_comparison |-> comparison_data,
         performance_ranking |-> [i \in 1..Len(ranking) |-> ranking[i].algorithm_id],
         security_analysis |->
            [quantum_safe_algorithms |->
                Len(SelectSeq(comparison_data, LAMBDA e : e.security_properties.quantum_safe)),
             classical_algorithms |->
                Len(SelectSeq(comparison_data, LAMBDA e : ~e.security_properties.quantum_safe))],
         insights |->
            IF algorithms_with_data = <<>> THEN <<>>
            ELSE <<[kind |-> "fastest", algorithm_id |-> FirstMin(algorithms_with_data)],
                   [kind |-> "slowest", algorithm_id |-> FirstMax(algorithms_with_data)]>>]

\* recommendations that name, for quantum safety, the first quantum-safe entry
\* with data instead of the one of least mean
ComparisonRecommendationsFirst(content) ==
    LET pq_with_data ==
            SelectSeq(content.algorithm_comparison,
                      LAMBDA e : /\ e.performance_metrics.successful_tests > 0
                                 /\ e.security_properties.quantum_safe)
    IN  IF pq_with_data = <<>> THEN <<>>
        ELSE <<[kind |-> "for_quantum_safety", algorithm_id |-> pq_with_data[1].algorithm_id]>>

\* recommendations of the comparison report
ComparisonRecommendations(content) ==
    LET comparison_data == content.algorithm_comparison
        algorithms_with_data ==
            SelectSeq(comparison_data, LAMBDA e : e.performance_metrics.successful_tests > 0)
        quantum_safe_algos ==
            SelectSeq(comparison_data, LAMBDA e : e.security_properties.quantum_safe)
        classical_algos ==
            SelectSeq(comparison_data, LAMBDA e : ~e.security_properties.quantum_safe)
        pq_with_data ==
            SelectSeq(algorithms_with_data, LAMBDA e : e.security_properties.quantum_safe)
    IN  (IF quantum_safe_algos # <<>> /\ classical_algos # <<>>
         THEN <<[kind |-> "migrate"]>> ELSE <<>>)
        \o (IF algorithms_with_data = <<>> THEN <<>>
            ELSE IF algorithms[FirstMin(algorithms_with_data)].quantum_safe
            THEN <<[kind |-> "recommended",
                    algorithm_id |-> FirstMin(algorithms_with_data)]>>
            ELSE IF pq_with_data # <<>>
            THEN <<[kind |-> "for_quantum_safety", algorithm_id |-> FirstMin(pq_with_data)]>>
            ELSE <<>>)

\* a generation that stores its row before it looks at the request
generate_comparison_report_eager(user, algorithm_ids, days) ==
    LET req == [user |-> user, algorithm_ids |-> algorithm_ids, days |-> days]
        content == ComparisonContent(tests, user, algorithm_ids, days, now)
        report == ReportRow(user, "comparison", content, algorithm_ids,
                            ComparisonRecommendations(content))
    IN  /\ UNCHANGED <<algorithms, tests>>
        /\ reports' = Append(reports, report)
        /\ response' =
              IF Len(algorithm_ids) < 2
              THEN Reply("comparison", req, 400, "",
                         "At least 2 algorithms required for comparison", None)
              ELSE IF Len(AlgorithmsIn(algorithm_ids)) # Len(algorithm_ids)
              THEN Reply("comparison", req, 404, "", "Some algorithms not found", None)
              ELSE Reply("comparison", req, 201,
                         "Comparison report generated successfully", "",
                         [id |-> Len(reports) + 1, report |-> report])

generate_comparison_report(user, algorithm_ids, days) ==
    LET req == [user |-> user, algorithm_ids |-> algorithm_ids, days |-> days]
        content == ComparisonContent(tests, user, algorithm_ids, days, now)
        report == ReportRow(user, "comparison", content, algorithm_ids,
                            ComparisonRecommendations(content))
    IN  /\ UNCHANGED <<algorithms, tests>>
        /\ IF Len(algorithm_ids) < 2
           THEN /\ response' = Reply("comparison", req, 400, "",
                                     "At least 2 algorithms required for comparison", None)
                /\ UNCHANGED reports
           ELSE IF Len(AlgorithmsIn(algorithm_ids)) # Len(algorithm_ids)
           THEN /\ response' = Reply("comparison", req, 404, "",
                                     "Some algorithms not found", None)
                /\ UNCHANGED reports
           ELSE /\ reports' = Append(reports, report)
                /\ response' = Reply("comparison", req, 201,
                                     "Comparison report generated successfully", "",
                                     [id |-> Len(reports) + 1, report |-> report])

---------------------------------------------------------------------------
(* The record and report routes under requests of several principals,  *)
(* within one day: every request leaves "days" at its default          *)

\* the runs name RSA-2048 and an id the catalog does not hold
ReportAlgorithmIds == {1, Len(all_algorithms) + 1}

\* "algorithm_ids" absent, RSA-2048, RSA-2048 and Kyber-512, and two ids of
\* which the catalog holds one
AlgorithmIdLists == {<<>>, <<1>>, <<1, 7>>, <<7, Len(all_algorithms) + 1>>}

\* every id of the request is in the catalog
AllFound(algorithm_ids) == \A id \in Range(algorithm_ids) : AlgorithmFound(id)

\* data.get("days", 30)
DefaultDays == 30

\* "days": a window that ends today, and the default
Days == {0, DefaultDays}

Millis == 1..MaxMillis

\* encryption, and an operation kind the harness does not know
ReportTestTypes == {"encryption", "hashing"}

\* the default input, and one RSA-2048 refuses
ReportInputs(algorithm_id) ==
    IF algorithm_id = 1 THEN {None, Text(LongInput)} ELSE {None}

Tick ==
    /\ now < MaxNow
    /\ now' = now + 1
    /\ UNCHANGED <<algorithms, tests, response, cmp, crypto_impl, held, ret, reports,
                   users, inflight>>

\* the catalog is seeded before the first request
InitReports ==
    /\ algorithms = all_algorithms
    /\ tests = <<>>
    /\ response = NoResponse
    /\ cmp = [pc |-> "idle"]
    /\ crypto_impl = NoInstance
    /\ held = [kind |-> "none", msg |-> None, env |-> None, fresh |-> FALSE]
    /\ ret = [op |-> ""]
    /\ reports = <<>>
    /\ now = 0
    /\ users = <<>>
    /\ inflight = <<>>

NextReports ==
    \/ \E user \in Users, algorithm_id \in ReportAlgorithmIds, req_type \in ReportTestTypes :
          \E req_input \in IF Runs(algorithm_id, req_type)
                           THEN ReportInputs(algorithm_id) ELSE {None},
             t \in Times :
             /\ test_algorithm(user, algorithm_id, req_type, req_input, NoDraw, NoDraw, t)
             /\ Len(tests') <= MaxRows      \* the model stops at a full table
             /\ UNCHANGED <<cmp, crypto_impl, held, ret, reports, now, users, inflight>>
    \/ \E algorithm_ids \in {<<1>>} :
          /\ cmp.pc = "idle"               \* one comparison request per behaviour
          /\ compare_algorithms_begin(algorithm_ids, None)
          /\ UNCHANGED <<response, crypto_impl, held, ret, reports, now, users, inflight>>
    \/ \E user \in Users, test_id \in 1..MaxRows :
          get_test(user, test_id) /\ UNCHANGED <<cmp, crypto_impl, held, ret, now, users, inflight>>
    \/ \E user \in Users, test_id \in 1..MaxRows :
          delete_test(user, test_id) /\ UNCHANGED <<cmp, crypto_impl, held, ret, now, users, inflight>>
    \/ \E user \in Users, test_ids \in {<<>>, <<1>>, <<1, 2>>} :
          bulk_delete_tests(user, test_ids) /\ UNCHANGED <<cmp, crypto_impl, held, ret, now, users, inflight>>
    \/ \E user \in Users, report_id \in 1..MaxReports :
          get_report(user, report_id) /\ UNCHANGED <<cmp, crypto_impl, held, ret, now, users, inflight>>
    \/ \E user \in Users, report_id \in 1..MaxReports :
          delete_report(user, report_id) /\ UNCHANGED <<cmp, crypto_impl, held, ret, now, users, inflight>>
    \/ \E user \in Users, algorithm_ids \in AlgorithmIdLists :
          /\ generate_performance_report(user, algorithm_ids, DefaultDays)
          /\ Len(reports') <= MaxReports    \* the model stops at a full table
          /\ UNCHANGED <<cmp, crypto_impl, held, ret, now, users, inflight>>
    \/ \E user \in Users :
          /\ generate_security_report(user)
          /\ Len(reports') <= MaxReports
          /\ UNCHANGED <<cmp, crypto_impl, held, ret, now, users, inflight>>
    \/ \E user \in Users, algorithm_ids \in AlgorithmIdLists :
          /\ generate_comparison_report(user, algorithm_ids, DefaultDays)
          /\ Len(reports') <= MaxReports
          /\ UNCHANGED <<cmp, crypto_impl, held, ret, now, users, inflight>>

SpecReports == InitReports /\ [][NextReports]_vars

---------------------------------------------------------------------------
(* Report generation: requests, refusals and stored rows *)

GenerationRoutes == {"performance", "security", "comparison"}

\* the last request was a report generation over a set of algorithm ids
GenerationOverIds == response.route \in {"performance", "comparison"}

\* the ids of the request the catalog holds
Remaining(algorithm_ids) == {id \in Range(algorithm_ids) : AlgorithmFound(id)}

\* C14: a performance or comparison report requested for a set of algorithm
\* ids of which some are not in the catalog is still generated, over the
\* remaining algorithms: the unknown id is skipped, the request is not refused.
C14_UnknownIdSkipped ==
    (/\ GenerationOverIds
     /\ ~AllFound(response.req.algorithm_ids)
     /\ Remaining(response.req.algorithm_ids) # {})
        => response.status = 201

\* the errors a request is refused with before any primitive runs: unknown
\* algorithm, no implementation, unsupported operation kind, missing
\* algorithm set, fewer than two algorithms
CallerErrors ==
    {"Algorithm not found", "Implementation not available", "Unsupported test type",
     "At least one algorithm ID is required", "Some algorithms not found",
     "At least 2 algorithms required for comparison"}

\* the step ends a test, a comparison or a report generation with a refusal
RefusedStep ==
    \/ /\ response'.route \in {"test"} \cup GenerationRoutes
       /\ response'.error \in CallerErrors
    \/ /\ cmp' # cmp
       /\ cmp'.pc = "done"
       /\ cmp'.error \in CallerErrors

RefusalKeepsTablesStep == RefusedStep => tests' = tests /\ reports' = reports

\* C15: a step in which test_algorithm, compare_algorithms or a report
\* generation refuses the request (unknown algorithm, fewer than two
\* algorithms, missing algorithm set, unsupported operation kind) leaves the
\* stored test rows and report rows exactly as they were.
C15_RefusalKeepsTables == [][RefusalKeepsTablesStep]_vars

\* a report generation was refused while both tables hold rows
C15_Witness ==
    /\ response.route \in GenerationRoutes
    /\ response.error \in CallerErrors
    /\ Ids(tests) # {}
    /\ Ids(reports) # {}

\* the step is a report generation that answers 201
GeneratedStep ==
    /\ response' # response
    /\ response'.route \in GenerationRoutes
    /\ response'.status = 201

\* the step is the delete of report id by the principal who owns it
OwnerDeletesStep(id) ==
    /\ response'.route = "delete_report"
    /\ response'.status = 200
    /\ response'.req.id = id
    /\ response'.req.user = reports[id].user_id

ReportFrameStep ==
    /\ GeneratedStep =>
          /\ tests' = tests
          /\ reports' = Append(reports, reports'[Len(reports')])
          /\ reports'[Len(reports')].user_id = response'.req.user
          /\ reports'[Len(reports')].report_type = response'.route
    /\ \A id \in Ids(reports) :
          \/ id \in Ids(reports') /\ reports'[id] = reports[id]
          \/ OwnerDeletesStep(id)

\* C16: a step in which a performance, security or comparison report is
\* generated appends exactly one report row, owned by the caller, and leaves
\* every test row and every other report row as it was; and in every step a
\* stored report row stays as it is unless its owner deletes it.
C16_ReportFrame == [][ReportFrameStep]_vars

\* a report was generated for a principal while the table holds a report of
\* another principal
C16_Witness ==
    /\ response.route \in GenerationRoutes
    /\ response.status = 201
    /\ response.body.id \in Ids(reports)
    /\ reports[response.body.id].user_id = response.req.user
    /\ \E id \in Ids(reports) : reports[id].user_id # response.req.user

---------------------------------------------------------------------------
(* Report generation over a table of tests that stays as it is, while the *)
(* clock advances                                                         *)

\* the row a run of a principal writes: a failed one when the primitive
\* raises
StoredRow(user, algorithm_id, test_type, input_data, t) ==
    LET algorithm == all_algorithms[algorithm_id]
        out == RunTest(Instance(algorithm.category, algorithm.key_size), test_type,
                       input_data, NoDraw, NoDraw)
    IN  IF out.ok
        THEN SuccessRecord(user, algorithm_id, algorithm, test_type, input_data, out.val, t)
        ELSE FailedRecord(user, algorithm_id, algorithm, test_type, input_data, out.err, t)

\* three runs: two of RSA-2048, the first by principal 1 and measured at 1,
\* the second on the default input or on one RSA-2048 refuses, and one of
\* Kyber-512
StoredTables ==
    {<<StoredRow(1, 1, "encryption", DefaultInput, 1),
       StoredRow(u2, 1, "encryption", input_data, t2),
       StoredRow(u3, 7, "encryption", DefaultInput, t3)>> :
        u2 \in Users, u3 \in Users, input_data \in {DefaultInput, LongInput},
        t2 \in Millis, t3 \in Millis}

InitGenerate ==
    /\ now = 0
    /\ users = <<>>
    /\ inflight = <<>>
    /\ algorithms = all_algorithms
    /\ tests \in StoredTables
    /\ response = NoResponse
    /\ cmp = [pc |-> "idle"]
    /\ crypto_impl = NoInstance
    /\ held = [kind |-> "none", msg |-> None, env |-> None, fresh |-> FALSE]
    /\ ret = [op |-> ""]
    /\ reports = <<>>

NextGenerate ==
    \/ Tick
    \/ \E user \in Users, algorithm_ids \in {<<1, 7>>}, days \in Days :
          /\ generate_performance_report(user, algorithm_ids, days)
          /\ Len(reports') <= MaxRepeats    \* the model stops at a full table
          /\ UNCHANGED <<cmp, crypto_impl, held, ret, now, users, inflight>>
    \/ \E user \in Users :
          /\ generate_security_report(user)
          /\ Len(reports') <= MaxRepeats
          /\ UNCHANGED <<cmp, crypto_impl, held, ret, now, users, inflight>>
    \/ \E user \in Users, algorithm_ids \in {<<1, 7>>} :
          /\ generate_comparison_report(user, algorithm_ids, DefaultDays)
          /\ Len(reports') <= MaxRepeats
          /\ UNCHANGED <<cmp, crypto_impl, held, ret, now, users, inflight>>
    \/ \E user \in Users, report_id \in 1..MaxRepeats :
          get_report(user, report_id) /\ UNCHANGED <<cmp, crypto_impl, held, ret, now, users, inflight>>
    \/ \E user \in Users, report_id \in 1..MaxRepeats :
          delete_report(user, report_id) /\ UNCHANGED <<cmp, crypto_impl, held, ret, now, users, inflight>>

SpecGenerate == InitGenerate /\ [][NextGenerate]_vars

---------------------------------------------------------------------------
(* Repeated performance reports *)

\* count, mean, minimum, maximum and standard deviation of each algorithm,
\* and the ranking
Aggregates(report) ==
    [performance_data |-> report.content.performance_data,
     performance_ranking |-> report.content.performance_ranking]

\* the step answers a performance report to the request the last answer, a
\* performance report as well, was given to; no other request lies between
RepeatedStep ==
    /\ response.route = "performance" /\ response.status = 201
    /\ response'.route = "performance" /\ response'.status = 201
    /\ response'.req = response.req
    /\ tests' = tests

\* since_date of a generated report
SinceDate(report) == report.content.analysis_period.start_date

\* the two windows hold the same rows of the table
SameWindow ==
    \A id \in Ids(tests) :
        (tests[id].created_at >= SinceDate(response.body.report))
            <=> (tests[id].created_at >= SinceDate(response'.body.report))

RepeatIdenticalStep ==
    RepeatedStep =>
        Aggregates(response'.body.report) = Aggregates(response.body.report)

RepeatIdenticalInWindowStep ==
    (RepeatedStep /\ SameWindow) =>
        Aggregates(response'.body.report) = Aggregates(response.body.report)

---------------------------------------------------------------------------
(* Isolation of principals *)

\* the rows of a table other principals own
OthersIds(table, user) == {id \in Ids(table) : table[id].user_id # user}

\* the table without the rows of the set ids
Without(table, ids) == [i \in 1..Len(table) |-> IF i \in ids THEN Deleted ELSE table[i]]

\* the content a generation route computes for a request over a table
ContentOver(table, route, req) ==
    CASE route = "performance" ->
            PerformanceContent(table, req.user, req.algorithm_ids, req.days, now)
      [] route = "security" -> SecurityContent(table, req.user)
      [] route = "comparison" ->
            ComparisonContent(table, req.user, req.algorithm_ids, req.days, now)

\* the ids of stored tests the request of a record route names
NamedTests(r) ==
    IF r.route \in {"get_test", "delete_test"} THEN {r.req.id} \cap Ids(tests)
    ELSE IF r.route = "bulk_delete" THEN Range(r.req.ids) \cap Ids(tests)
    ELSE {}

IsolationStep ==
    \* a request that names a test of another principal is answered 404
    /\ (\E id \in NamedTests(response') : tests[id].user_id # response'.req.user)
          => response'.status = 404 /\ tests' = tests
    \* and so is one that names a report of another principal
    /\ (/\ response'.route \in {"get_report", "delete_report"}
        /\ response'.req.id \in Ids(reports)
        /\ reports[response'.req.id].user_id # response'.req.user)
          => response'.status = 404 /\ reports' = reports
    \* a row that is answered belongs to the caller
    /\ (response'.route \in {"get_test", "get_report"} /\ response'.status = 200)
          => response'.body.user_id = response'.req.user
    \* a test leaves the table only by a delete of its owner
    /\ \A id \in Ids(tests) :
          \/ id \in Ids(tests') /\ tests'[id] = tests[id]
          \/ /\ response'.route \in {"delete_test", "bulk_delete"}
             /\ response'.status = 200
             /\ response'.req.user = tests[id].user_id
    \* and a report only by a delete of its owner
    /\ \A id \in Ids(reports) :
          \/ id \in Ids(reports') /\ reports'[id] = reports[id]
          \/ OwnerDeletesStep(id)
    \* the content of a generated report is the content over any table that
    \* lacks rows of other principals
    /\ GeneratedStep =>
          \A ids \in SUBSET OthersIds(tests, response'.req.user) :
              response'.body.report.content
                  = ContentOver(Without(tests, ids), response'.route, response'.req)

\* C17: get, delete and bulk delete of tests and get and delete of reports
\* act only on rows the caller owns: a request naming a row of another
\* principal is answered as not found and deletes nothing, a row leaves a table
\* only by its owner's delete; and the content of every report generated for
\* a caller is the same with and without the test rows of other principals.
C17_Isolation == [][IsolationStep]_vars

\* a bulk delete naming a row of the caller and a row of another principal
\* was refused, and a report is stored
C17_Witness ==
    /\ response.route = "bulk_delete"
    /\ response.status = 404
    /\ \E id \in NamedTests(response) : tests[id].user_id # response.req.user
    /\ \E id \in NamedTests(response) : tests[id].user_id = response.req.user
    /\ Ids(reports) # {}

---------------------------------------------------------------------------
(* What the reports say about the table of tests *)

\* the last answer is a report of the kind generated over the table as it is
Generated(kind) == response.route = kind /\ response.status = 201

LastReport == response.body.report

\* the caller's successful rows of an algorithm created on or after a day
Samples(user, algorithm_id, since_date) ==
    {id \in Ids(tests) : /\ tests[id].user_id = user
                         /\ tests[id].algorithm_id = algorithm_id
                         /\ tests[id].success
                         /\ tests[id].created_at >= since_date}

RECURSIVE TotalTime(_)
TotalTime(ids) ==
    IF ids = {} THEN 0
    ELSE LET id == CHOOSE x \in ids : TRUE
         IN  tests[id].execution_time + TotalTime(ids \ {id})

\* a value in hundredths is num / den rounded to two places
Rounds(value, num, den) ==
    /\ 2 * (value * den - 100 * num) <= den
    /\ 2 * (100 * num - value * den) <= den

\* the metrics of an entry are count, mean, minimum and maximum of the samples
MetricsOf(metrics, ids) ==
    /\ metrics.total_tests = Cardinality(ids)
    /\ ids = {} => /\ metrics.avg_execution_time_ms = 0
                   /\ metrics.min_execution_time_ms = 0
                   /\ metrics.max_execution_time_ms = 0
    /\ ids # {} =>
          /\ Rounds(metrics.avg_execution_time_ms, TotalTime(ids), Cardinality(ids))
          /\ \E id \in ids : metrics.min_execution_time_ms = 100 * tests[id].execution_time
          /\ \E id \in ids : metrics.max_execution_time_ms = 100 * tests[id].execution_time
          /\ \A id \in ids :
                /\ metrics.min_execution_time_ms <= 100 * tests[id].execution_time
                /\ metrics.max_execution_time_ms >= 100 * tests[id].execution_time

\* the entries of a list that name an algorithm
EntriesOf(entries, algorithm_id) ==
    {i \in 1..Len(entries) : entries[i].algorithm_id = algorithm_id}

\* the recommendations of a kind
Recommended(report, kind) ==
    {i \in 1..Len(report.recommendations) : report.recommendations[i].kind = kind}

\* C21: a performance report gives, for each algorithm requested, count, mean,
\* minimum and maximum of the execution times of exactly the caller's
\* successful rows of that algorithm inside the trailing window; its ranking
\* lists exactly the algorithms with such a row, in non-decreasing order of
\* the mean; the algorithm named fastest is the first of the ranking and the
\* one flagged slowest, flagged only when more than one is ranked, is the last.
C21_PerformanceAggregates ==
    Generated("performance") =>
        LET content == LastReport.content
            user == response.req.user
            since_date == content.analysis_period.start_date
            data == content.performance_data
            ranking == content.performance_ranking
            Mean(algorithm_id) ==
                data[CHOOSE i \in EntriesOf(data, algorithm_id) : TRUE]
                    .metrics.avg_execution_time_ms
        IN  /\ LastReport.user_id = user
            /\ since_date = content.analysis_period.end_date - response.req.days
            /\ content.analysis_period.end_date = LastReport.created_at
            /\ \A algorithm_id \in Range(response.req.algorithm_ids) :
                  /\ Cardinality(EntriesOf(data, algorithm_id)) = 1
                  /\ \A i \in EntriesOf(data, algorithm_id) :
                        MetricsOf(data[i].metrics, Samples(user, algorithm_id, since_date))
            /\ Range(ranking) = {algorithm_id \in Range(response.req.algorithm_ids) :
                                    Samples(user, algorithm_id, since_date) # {}}
            /\ Cardinality(Range(ranking)) = Len(ranking)
            /\ \A i \in 1..Len(ranking), j \in 1..Len(ranking) :
                  i < j => Mean(ranking[i]) <= Mean(ranking[j])
            /\ ranking # <<>> =>
                  /\ Cardinality(Recommended(LastReport, "best_performing")) = 1
                  /\ \A i \in Recommended(LastReport, "best_performing") :
                        LastReport.recommendations[i].algorithm_id = ranking[1]
            /\ Recommended(LastReport, "consider_optimizing") # {} <=> Len(ranking) > 1
            /\ \A i \in Recommended(LastReport, "consider_optimizing") :
                  LastReport.recommendations[i].algorithm_id = ranking[Len(ranking)]

\* a performance report ranks two algorithms of different means while the
\* caller has a failed row and another principal has rows
C21_Witness ==
    /\ Generated("performance")
    /\ Len(LastReport.content.performance_ranking) = 2
    /\ \E i, j \in 1..Len(LastReport.content.performance_data) :
          LastReport.content.performance_data[i].metrics.avg_execution_time_ms
              < LastReport.content.performance_data[j].metrics.avg_execution_time_ms
    /\ \E id \in Ids(tests) : tests[id].user_id = response.req.user /\ ~tests[id].success

---------------------------------------------------------------------------
(* The security report over tables of many runs of one principal *)

MaxCount == 19      \* successful runs of one algorithm in a table
MaxFailed == 5      \* failed runs among them
MaxMixed == 4       \* runs of each of two algorithms in a table

\* the algorithms that have runs: RSA-2048, classical, and Dilithium-2,
\* quantum-safe
TalliedIds == {1, 10}

\* a run of principal 1 that succeeds: encryption, which the harness turns
\* into signing for Dilithium
OkRow(algorithm_id) ==
    StoredRow(1, algorithm_id, AutoCorrect(all_algorithms[algorithm_id].category, "encryption"),
              DefaultInput, 1)

\* and one that fails: an input RSA-2048 refuses, a decryption on Dilithium
BadRow(algorithm_id) ==
    IF algorithm_id = 1
    THEN StoredRow(1, 1, "encryption", LongInput, 1)
    ELSE StoredRow(1, algorithm_id, "decryption", DefaultInput, 1)

\* runs of one algorithm, some failed, and successful runs of both
TalliedTables ==
    {Repeat(OkRow(a), ok) \o Repeat(BadRow(a), failed) :
        a \in TalliedIds, ok \in 0..MaxCount, failed \in 0..MaxFailed}
    \cup {Repeat(OkRow(1), classical) \o Repeat(OkRow(10), pq) :
             classical \in 0..MaxMixed, pq \in 0..MaxMixed}

InitSecurity ==
    /\ now = 0
    /\ users = <<>>
    /\ inflight = <<>>
    /\ algorithms = all_algorithms
    /\ tests \in TalliedTables
    /\ response = NoResponse
    /\ cmp = [pc |-> "idle"]
    /\ crypto_impl = NoInstance
    /\ held = [kind |-> "none", msg |-> None, env |-> None, fresh |-> FALSE]
    /\ ret = [op |-> ""]
    /\ reports = <<>>

NextSecurity ==
    \E user \in Users :
        /\ generate_security_report(user)
        /\ Len(reports') <= MaxReports      \* the model stops at a full table
        /\ UNCHANGED <<cmp, crypto_impl, held, ret, now, users, inflight>>

SpecSecurity == InitSecurity /\ [][NextSecurity]_vars


\* the caller's rows of an algorithm
RowsOf(user, algorithm_id) ==
    {id \in Ids(tests) : tests[id].user_id = user /\ tests[id].algorithm_id = algorithm_id}

\* the level the table of levels gives to a number of successes among runs
LevelOf(quantum_safe, successes, runs) ==
    LET bucket == IF runs > 0 /\ 100 * successes >= 95 * runs THEN 1
                  ELSE IF runs > 0 /\ 100 * successes >= 80 * runs THEN 2 ELSE 3
    IN  IF quantum_safe THEN <<"high", "medium-high", "medium">>[bucket]
        ELSE <<"medium", "medium-low", "low">>[bucket]

\* C22: a security report has one entry for every algorithm of the catalog; the
\* entry counts the caller's rows of the algorithm and the successful ones
\* among them, gives their ratio as a percentage (to two places, 0 without
\* rows), and gives the one level of the table: quantum-safe at 95 or more
\* high, at 80 or more medium-high, below medium; classical at 95 or more
\* medium, at 80 or more medium-low, below low.  A caller without rows gets the
\* report, and every level in it is the one below 80.
C22_SecurityTiers ==
    Generated("security") =>
        LET analysis == LastReport.content.algorithm_analysis
            user == response.req.user
        IN  /\ Len(analysis) = Len(algorithms)
            /\ \A id \in 1..Len(algorithms) :
                  LET rows == RowsOf(user, id)
                      successes == {r \in rows : tests[r].success}
                      results == analysis[id].test_results
                      level == analysis[id].security_assessment.level
                  IN  /\ analysis[id].algorithm_id = id
                      /\ results.total_tests = Cardinality(rows)
                      /\ results.successful_tests = Cardinality(successes)
                      /\ rows = {} => results.success_rate = 0
                      /\ rows # {} => Rounds(results.success_rate,
                                             100 * Cardinality(successes), Cardinality(rows))
                      /\ level = LevelOf(algorithms[id].quantum_safe,
                                         Cardinality(successes), Cardinality(rows))
                      /\ rows = {} => level \in {"unknown", "medium", "low"}
                                      /\ level = LevelOf(algorithms[id].quantum_safe, 0, 1)

\* a security report over rows of an algorithm of which exactly 95 in 100
\* succeeded
C22_Witness ==
    /\ Generated("security")
    /\ \E id \in 1..Len(algorithms) :
          LET results == LastReport.content.algorithm_analysis[id].test_results
          IN  /\ results.total_tests > 0
              /\ 100 * results.successful_tests = 95 * results.total_tests
              /\ results.success_rate = 9500
              /\ LastReport.content.algorithm_analysis[id].security_assessment.level
                    \in {"high", "medium"}

\* the caller's rows on algorithms of the catalog that are quantum-safe or not
RowsOn(user, quantum_safe) ==
    {id \in Ids(tests) : /\ tests[id].user_id = user
                         /\ tests[id].algorithm_id \in 1..Len(algorithms)
                         /\ algorithms[tests[id].algorithm_id].quantum_safe = quantum_safe}

AdoptionKinds == {"low_adoption", "moderate_adoption", "good_adoption"}

\* C23: the quantum-readiness score of a security report is 100 * pq /
\* (pq + classical), to two places, over the caller's rows on quantum-safe and
\* on other algorithms; it is 0 when the caller has no rows and lies between 0
\* and 100; the report carries exactly one adoption recommendation: the first
\* when the ratio is below 25, the second when it is below 50, the third
\* otherwise.
C23_ReadinessScore ==
    Generated("security") =>
        LET user == response.req.user
            pq == Cardinality(RowsOn(user, TRUE))
            classical == Cardinality(RowsOn(user, FALSE))
            score == LastReport.content.security_overview.quantum_readiness_score
            adoption == {i \in 1..Len(LastReport.recommendations) :
                            LastReport.recommendations[i].kind \in AdoptionKinds}
        IN  /\ pq + classical = 0 => score = 0
            /\ pq + classical > 0 => Rounds(score, 100 * pq, pq + classical)
            /\ score >= 0 /\ score <= 100 * 100
            /\ Cardinality(adoption) = 1
            /\ \A i \in adoption :
                  LastReport.recommendations[i].kind =
                     IF 100 * pq < 25 * (pq + classical) \/ pq + classical = 0
                     THEN "low_adoption"
                     ELSE IF 100 * pq < 50 * (pq + classical)
                     THEN "moderate_adoption" ELSE "good_adoption"

\* a security report for a caller one in four of whose rows is on a
\* quantum-safe algorithm
C23_Witness ==
    /\ Generated("security")
    /\ Cardinality(RowsOn(response.req.user, TRUE)) = 1
    /\ Cardinality(RowsOn(response.req.user, FALSE)) = 3
    /\ LastReport.content.security_overview.quantum_readiness_score = 2500
    /\ Recommended(LastReport, "moderate_adoption") # {}


---------------------------------------------------------------------------
(* The comparison report over runs of a classical and two quantum-safe
   algorithms *)

\* lists of RSA-2048, Kyber-512 and Dilithium-2
ComparedLists == {<<1, 7, 10>>, <<10, 7, 1>>, <<7, 10>>}

\* one run of each algorithm, by either principal, the one of RSA-2048 failed
\* or not
ComparedTables ==
    {<<StoredRow(u[1], 1, "encryption", input_data, t[1]),
       StoredRow(u[2], 7, "encryption", DefaultInput, t[2]),
       StoredRow(u[3], 10, "signing", DefaultInput, t[3])>> :
        u \in [1..3 -> Users], t \in [1..3 -> 1..(MaxMillis + 1)],
        input_data \in {DefaultInput, LongInput}}

InitComparison ==
    /\ now = 0
    /\ users = <<>>
    /\ inflight = <<>>
    /\ algorithms = all_algorithms
    /\ tests \in ComparedTables
    /\ response = NoResponse
    /\ cmp = [pc |-> "idle"]
    /\ crypto_impl = NoInstance
    /\ held = [kind |-> "none", msg |-> None, env |-> None, fresh |-> FALSE]
    /\ ret = [op |-> ""]
    /\ reports = <<>>

NextComparison ==
    \E user \in Users, algorithm_ids \in ComparedLists :
        /\ generate_comparison_report(user, algorithm_ids, DefaultDays)
        /\ Len(reports') <= MaxReports      \* the model stops at a full table
        /\ UNCHANGED <<cmp, crypto_impl, held, ret, now, users, inflight>>

SpecComparison == InitComparison /\ [][NextComparison]_vars

\* C24: in a comparison report the algorithms named fastest and slowest are
\* entries of least and of greatest mean among the entries with a successful
\* row of the caller in the window, and when a quantum-safe algorithm has such
\* a row the one algorithm the report recommends for quantum safety is a
\* quantum-safe entry with such rows whose mean is least among those entries.
C24_ComparisonChoice ==
    Generated("comparison") =>
        LET content == LastReport.content
            user == response.req.user
            data == content.algorithm_comparison
            since_date == content.comparison_parameters.start_date
            Mean(i) == data[i].performance_metrics.avg_execution_time_ms
            with_samples ==
                {i \in 1..Len(data) : Samples(user, data[i].algorithm_id, since_date) # {}}
            safe_with_samples ==
                {i \in with_samples : algorithms[data[i].algorithm_id].quantum_safe}
            Named(kind) == {k \in 1..Len(content.insights) : content.insights[k].kind = kind}
            choice == Recommended(LastReport, "recommended")
                         \cup Recommended(LastReport, "for_quantum_safety")
        IN  /\ \A i \in with_samples :
                  LET ids == Samples(user, data[i].algorithm_id, since_date)
                  IN  Rounds(Mean(i), TotalTime(ids), Cardinality(ids))
            /\ Cardinality(Named("fastest")) = (IF with_samples = {} THEN 0 ELSE 1)
            /\ Cardinality(Named("slowest")) = (IF with_samples = {} THEN 0 ELSE 1)
            /\ \A k \in Named("fastest") :
                  \E i \in with_samples :
                      /\ data[i].algorithm_id = content.insights[k].algorithm_id
                      /\ \A j \in with_samples : Mean(i) <= Mean(j)
            /\ \A k \in Named("slowest") :
                  \E i \in with_samples :
                      /\ data[i].algorithm_id = content.insights[k].algorithm_id
                      /\ \A j \in with_samples : Mean(i) >= Mean(j)
            /\ Cardinality(choice) = (IF safe_with_samples = {} THEN 0 ELSE 1)
            /\ \A k \in choice :
                  \E i \in safe_with_samples :
                      /\ data[i].algorithm_id = LastReport.recommendations[k].algorithm_id
                      /\ \A j \in safe_with_samples : Mean(i) <= Mean(j)

\* a comparison report whose fastest entry is classical and whose second
\* quantum-safe entry is faster than its first: the second is recommended
C24_Witness ==
    /\ Generated("comparison")
    /\ response.req.algorithm_ids = <<1, 7, 10>>
    /\ LET data == LastReport.content.algorithm_comparison
       IN  /\ Len(data) = 3
           /\ \A i \in 1..3 : data[i].performance_metrics.successful_tests > 0
           /\ data[1].performance_metrics.avg_execution_time_ms
                 < data[3].performance_metrics.avg_execution_time_ms
           /\ data[3].performance_metrics.avg_execution_time_ms
                 < data[2].performance_metrics.avg_execution_time_ms
           /\ \E k \in Recommended(LastReport, "for_quantum_safety") :
                 LastReport.recommendations[k].algorithm_id = 10


---------------------------------------------------------------------------
(* Decryption on the key encapsulation class *)

\* the last response answers a decryption run of the harness on Kyber
KyberDecryptionRun ==
    /\ ReqFound
    /\ ReqCategory = "Kyber"
    /\ Req.test_type = "decryption"
    /\ response.status \in {200, 400}

\* C25: on a Kyber instance encrypt succeeds, and the outcome of decrypt on
\* the envelope is fixed by the key decrypt draws, whatever encapsulated secret
\* the envelope carries and whatever keys the instance holds: decrypt returns
\* the message only when it draws the key encrypt drew, and for every
\* encryption some draw makes it raise.  So a decryption run of the harness
\* ends with a row that is successful or failed.
C25_KyberDecryptDrawsItsKey ==
    KyberDecryptionRun =>
        LET impl == Instance("Kyber", algorithms[Req.algorithm_id].key_size)
            row == tests[response.test_id]
        IN  /\ \A r1 \in FirstDraws :
                  LET encrypted == encrypt(impl, ReqInput, r1)
                      Decrypted(r2) == decrypt(encrypted.self, encrypted.ret.val, r2).ret
                  IN  /\ encrypted.ret.ok
                      /\ \A r2 \in SecondDraws :
                            /\ Decrypted(r2) = RunTest(impl, "decryption", ReqInput, r1, r2)
                            /\ Decrypted(r2) = Ok(Text(ReqInput)) => r2.eph = r1.eph
                            /\ \A other \in FirstDraws :
                                  (other.eph = r1.eph /\ other.iv = r1.iv)
                                     => decrypt(encrypt(impl, ReqInput, other).self,
                                                encrypt(impl, ReqInput, other).ret.val, r2).ret
                                           = Decrypted(r2)
                      /\ \E r2 \in SecondDraws : ~Decrypted(r2).ok
            /\ row.test_type = "decryption"
            /\ \/ row.success /\ response.status = 200
               \/ /\ ~row.success /\ response.status = 400
                  /\ row.error_message
                        = Lit("Kyber decryption failed: AES decryption failed")

\* a decryption run on Kyber ended with a failed row whose error is the one of
\* decrypt: the encryption before it succeeded
C25_Witness ==
    /\ KyberDecryptionRun
    /\ response.status = 400
    /\ ~tests[response.test_id].success
    /\ tests[response.test_id].error_message
          = Lit("Kyber decryption failed: AES decryption failed")


---------------------------------------------------------------------------
(* get_performance_trends *)

\* the values of first_avg, in hundredths up to 30.00, for which the double
\* first_avg * 0.9 lies above the double nearest to nine tenths of first_avg:
\* the double nearest to 0.9 is above 0.9, and here the product is not rounded
\* back down
NineTenthsRoundedUp ==
    {10, 20, 40, 80, 110, 130, 160, 210, 220, 260, 320, 420, 440, 520, 590, 640, 650,
     690, 770, 830, 840, 880, 930, 1030, 1040, 1050, 1130, 1180, 1280, 1290, 1300,
     1380, 1430, 1530, 1540, 1550, 1610, 1630, 1660, 1680, 1710, 1760, 1810, 1830,
     1850, 1860, 2010, 2060, 2080, 2100, 2110, 2260, 2310, 2330, 2350, 2360, 2510,
     2560, 2580, 2600, 2610, 2760, 2810, 2830, 2850, 2860}

\* last_avg < first_avg * 0.9 in double arithmetic, on averages in hundredths
LessThanNineTenths(last_avg, first_avg) ==
    \/ 10 * last_avg < 9 * first_avg
    \/ 10 * last_avg = 9 * first_avg /\ first_avg \in NineTenthsRoundedUp

\* last_avg > first_avg * 1.1: the double product is never below eleven
\* tenths of first_avg, for averages up to 30.00
MoreThanElevenTenths(last_avg, first_avg) == 10 * last_avg > 11 * first_avg

get_performance_trends(user, algorithm_id, days) ==
    LET req == [user |-> user, algorithm_id |-> algorithm_id, days |-> days]
        since_date == now - days
        rows == Successful(TestsSince(tests, user, algorithm_id, since_date))
        dates == {rows[i].created_at : i \in 1..Len(rows)}
        TimesOn(date) == ExecutionTimes(SelectSeq(rows, LAMBDA row : row.created_at = date))
        trends ==
            [k \in 1..Cardinality(dates) |->
                LET date == CHOOSE d \in dates : Cardinality({e \in dates : e < d}) = k - 1
                IN  [date |-> date,
                     avg_execution_time_ms |-> Round2(Sum(TimesOn(date)), Len(TimesOn(date))),
                     test_count |-> Len(TimesOn(date)),
                     min_time |-> 100 * Min(TimesOn(date)),
                     max_time |-> 100 * Max(TimesOn(date))]]
        first_avg == trends[1].avg_execution_time_ms
        last_avg == trends[Len(trends)].avg_execution_time_ms
        trend_direction ==
            IF Len(trends) >= 2
            THEN IF MoreThanElevenTenths(last_avg, first_avg) THEN "degrading"
                 ELSE IF LessThanNineTenths(last_avg, first_avg) THEN "improving"
                 ELSE "stable"
            ELSE "insufficient_data"
    IN  /\ response' =
              IF algorithm_id = 0
              THEN Reply("trends", req, 400, "", "algorithm_id parameter is required", None)
              ELSE IF ~AlgorithmFound(algorithm_id)
              THEN Reply("trends", req, 404, "", "Algorithm not found", None)
              ELSE IF rows = <<>>
              THEN Reply("trends", req, 200, "", "",
                         [trends |-> <<>>,
                          summary |-> [total_tests |-> 0, avg_execution_time |-> 0,
                                       trend_direction |-> "no_data"]])
              ELSE Reply("trends", req, 200, "", "",
                         [trends |-> trends,
                          summary |-> [total_tests |-> Len(rows),
                                       avg_execution_time |->
                                          Round2(Sum(ExecutionTimes(rows)), Len(rows)),
                                       trend_direction |-> trend_direction,
                                       period_days |-> days]])
        /\ UNCHANGED <<algorithms, tests, reports>>

\* request.args.get("days", 7, type=int)
TrendDays == 7

MaxDayRows == 5     \* runs of the last day

\* execution times of the runs, in milliseconds
FirstDayTimes == {21, 26, 29}
LastDayTimes == <<23, 24>>

\* a successful run of RSA-2048 by principal 1 on a day
RunOn(date, t) == [StoredRow(1, 1, "encryption", DefaultInput, t) EXCEPT !.created_at = date]

\* rows the trend of principal 1 on RSA-2048 does not read: none, a failed
\* run, a run of another principal, a run of another algorithm
RowsAside ==
    {<<>>,
     <<[StoredRow(1, 1, "encryption", LongInput, 1) EXCEPT !.created_at = MaxNow]>>,
     <<[StoredRow(2, 1, "encryption", DefaultInput, 1) EXCEPT !.created_at = MaxNow]>>,
     <<[StoredRow(1, 7, "encryption", DefaultInput, 1) EXCEPT !.created_at = MaxNow]>>}

\* no run or one on the first day, and runs of two latencies on the last
TrendTables ==
    {first \o Repeat(RunOn(MaxNow, LastDayTimes[1]), lo) \o Repeat(RunOn(MaxNow, LastDayTimes[2]), hi) \o aside :
        first \in {<<>>} \cup {<<RunOn(0, t)>> : t \in FirstDayTimes},
        lo \in 0..MaxDayRows, hi \in 0..MaxDayRows, aside \in RowsAside}

InitTrends ==
    /\ now = MaxNow
    /\ users = <<>>
    /\ inflight = <<>>
    /\ algorithms = all_algorithms
    /\ tests \in {table \in TrendTables : Len(table) <= MaxDayRows + 2}
    /\ response = NoResponse
    /\ cmp = [pc |-> "idle"]
    /\ crypto_impl = NoInstance
    /\ held = [kind |-> "none", msg |-> None, env |-> None, fresh |-> FALSE]
    /\ ret = [op |-> ""]
    /\ reports = <<>>

NextTrends ==
    \E user \in Users, algorithm_id \in {0, 1, Len(all_algorithms) + 1},
       days \in {0, TrendDays} :
        /\ get_performance_trends(user, algorithm_id, days)
        /\ UNCHANGED <<cmp, crypto_impl, held, ret, now, users, inflight>>

SpecTrends == InitTrends /\ [][NextTrends]_vars

\* the caller's successful rows of the algorithm in the window of the request
TrendSamples ==
    Samples(response.req.user, response.req.algorithm_id, now - response.req.days)

\* C26: the trends route answers with one label, fixed by the caller's
\* successful rows of the algorithm in the window: no_data without such rows,
\* insufficient_data when they fall on fewer than two days, and otherwise, by
\* the averages of the first and of the last day, degrading when the last is
\* above 1.1 times the first, improving when it is below 0.9 times the first,
\* stable in between.
C26_TrendLabel ==
    (response.route = "trends" /\ response.status = 200) =>
        LET trends == response.body.trends
            dates == {tests[id].created_at : id \in TrendSamples}
            first_avg == trends[1].avg_execution_time_ms
            last_avg == trends[Len(trends)].avg_execution_time_ms
        IN  /\ Len(trends) = Cardinality(dates)
            /\ \A k \in 1..Len(trends) :
                  LET ids == {id \in TrendSamples : tests[id].created_at = trends[k].date}
                  IN  /\ ids # {}
                      /\ \A j \in 1..(k - 1) : trends[j].date < trends[k].date
                      /\ Rounds(trends[k].avg_execution_time_ms, TotalTime(ids),
                                Cardinality(ids))
            /\ response.body.summary.trend_direction =
                  IF TrendSamples = {} THEN "no_data"
                  ELSE IF Cardinality(dates) < 2 THEN "insufficient_data"
                  ELSE IF 10 * last_avg > 11 * first_avg THEN "degrading"
                  ELSE IF 10 * last_avg < 9 * first_avg THEN "improving"
                  ELSE "stable"


---------------------------------------------------------------------------
(* generate_security_report beside other requests: every query of the route
   is a step of its own, and the rows it counts are those committed when the
   query runs *)

\* the request arrives: Algorithm.query.all()
security_report_begin(user) ==
    /\ inflight = <<>>
    /\ inflight' = <<[route |-> "security", pc |-> "total_tests", user |-> user,
                      total_tests |-> 0, counted |-> <<>>]>>
    /\ UNCHANGED <<algorithms, tests, reports, response>>

\* Test.query.filter_by(user_id, algorithm_id).count()
security_report_count_total ==
    /\ inflight # <<>>
    /\ inflight[1].pc = "total_tests"
    /\ LET algorithm_id == Len(inflight[1].counted) + 1
       IN  inflight' =
              <<[inflight[1] EXCEPT
                    !.pc = "successful_tests",
                    !.total_tests = Len(TestsOf(tests, inflight[1].user, algorithm_id))]>>
    /\ UNCHANGED <<algorithms, tests, reports, response>>

\* Test.query.filter_by(user_id, algorithm_id, success=True).count()
security_report_count_successful ==
    /\ inflight # <<>>
    /\ inflight[1].pc = "successful_tests"
    /\ LET algorithm_id == Len(inflight[1].counted) + 1
           successful_tests ==
               Len(Successful(TestsOf(tests, inflight[1].user, algorithm_id)))
       IN  inflight' =
              <<[inflight[1] EXCEPT
                    !.pc = IF algorithm_id = Len(algorithms) THEN "finish" ELSE "total_tests",
                    !.counted = Append(@, [total_tests |-> inflight[1].total_tests,
                                           successful_tests |-> successful_tests])]>>
    /\ UNCHANGED <<algorithms, tests, reports, response>>

\* the adoption counts, the content and the Report row
security_report_finish ==
    /\ inflight # <<>>
    /\ inflight[1].pc = "finish"
    /\ LET user == inflight[1].user
           analysis ==
               [id \in 1..Len(algorithms) |->
                   SecurityEntry(id, inflight[1].counted[id].total_tests,
                                 inflight[1].counted[id].successful_tests)]
           content == SecurityContentOf(analysis, UserTests(tests, user, TRUE),
                                        UserTests(tests, user, FALSE))
           report == ReportRow(user, "security", content, [i \in 1..Len(algorithms) |-> i],
                               SecurityRecommendations(tests, user, content))
       IN  /\ reports' = Append(reports, report)
           /\ response' = Reply("security", [user |-> user], 201,
                                "Security report generated successfully", "",
                                [id |-> Len(reports) + 1, report |-> report])
    /\ inflight' = <<>>
    /\ UNCHANGED <<algorithms, tests>>

InitScan ==
    /\ now = 0
    /\ users = <<>>
    /\ inflight = <<>>
    /\ algorithms = all_algorithms
    /\ tests = <<>>
    /\ response = NoResponse
    /\ cmp = [pc |-> "idle"]
    /\ crypto_impl = NoInstance
    /\ held = [kind |-> "none", msg |-> None, env |-> None, fresh |-> FALSE]
    /\ ret = [op |-> ""]
    /\ reports = <<>>

\* one report in progress, beside runs of RSA-2048 that succeed or fail and
\* deletions by the owner
NextScan ==
    \/ \E user \in Users :
          /\ security_report_begin(user)
          /\ Len(reports) < MaxReports      \* the model stops at a full table
          /\ UNCHANGED <<cmp, crypto_impl, held, ret, now, users>>
    \/ security_report_count_total /\ UNCHANGED <<cmp, crypto_impl, held, ret, now, users>>
    \/ security_report_count_successful
          /\ UNCHANGED <<cmp, crypto_impl, held, ret, now, users>>
    \/ security_report_finish /\ UNCHANGED <<cmp, crypto_impl, held, ret, now, users>>
    \/ \E user \in Users, input_data \in {Text(DefaultInput), Text(LongInput)} :
          /\ test_algorithm(user, 1, "encryption", input_data, NoDraw, NoDraw, 1)
          /\ Len(tests') <= MaxRows
          /\ UNCHANGED <<cmp, crypto_impl, held, ret, reports, now, users, inflight>>
    \/ \E user \in Users, test_id \in 1..MaxRows :
          /\ delete_test(user, test_id)
          /\ UNCHANGED <<cmp, crypto_impl, held, ret, now, users, inflight>>

SpecScan == InitScan /\ [][NextScan]_vars

\* C27: in every security report generated, the successful_tests of each
\* algorithm are at most its total_tests and its success rate is at most 100,
\* whatever runs and deletions are committed while the report is generated.
C27_SuccessfulWithinTotal ==
    Generated("security") =>
        \A id \in 1..Len(LastReport.content.algorithm_analysis) :
            LET results == LastReport.content.algorithm_analysis[id].test_results
            IN  /\ results.successful_tests <= results.total_tests
                /\ results.success_rate <= 100 * 100


---------------------------------------------------------------------------
(* Seed calls beside each other: seed_algorithms of the route and
   init_database of the script, each a count query and then one commit *)

MaxSeeders == 3     \* seed calls in one behaviour

Seeders == {"seed_algorithms", "init_database"}

\* a call arrives
seed_begin(seeder) ==
    /\ Len(inflight) < MaxSeeders
    /\ inflight' = Append(inflight, [route |-> seeder, pc |-> "count", status |-> 0])
    /\ UNCHANGED <<algorithms, response>>

\* if Algorithm.query.count() > 0: return
seed_count(k) ==
    /\ inflight[k].pc = "count"
    /\ IF Len(algorithms) > 0
       THEN /\ inflight' = [inflight EXCEPT ![k].pc = "done", ![k].status = 200]
            /\ response' = IF inflight[k].route = "seed_algorithms"
                           THEN Response("seed", NoRequest, 200, "Algorithms already seeded",
                                         "", 0)
                           ELSE response
       ELSE /\ inflight' = [inflight EXCEPT ![k].pc = "commit"]
            /\ UNCHANGED response
    /\ UNCHANGED algorithms

\* a commit on a table whose column "name" is not unique
seed_commit_unconstrained(k) ==
    /\ inflight[k].pc = "commit"
    /\ algorithms' = algorithms \o all_algorithms
    /\ inflight' = [inflight EXCEPT ![k].pc = "done", ![k].status = 201]
    /\ UNCHANGED response

\* db.session.add of every descriptor and db.session.commit(): the INSERTs
\* are one transaction, which the UNIQUE constraint on "name" aborts as a
\* whole; the route then rolls back and answers 500, the script ends with the
\* exception
seed_commit(k) ==
    /\ inflight[k].pc = "commit"
    /\ IF \E i \in 1..Len(algorithms), j \in 1..Len(all_algorithms) :
             algorithms[i].name = all_algorithms[j].name
       THEN /\ inflight' = [inflight EXCEPT ![k].pc = "done", ![k].status = 500]
            /\ response' = IF inflight[k].route = "seed_algorithms"
                           THEN Response("seed", NoRequest, 500, "",
                                         "Failed to seed algorithms", 0)
                           ELSE response
            /\ UNCHANGED algorithms
       ELSE /\ algorithms' = algorithms \o all_algorithms
            /\ inflight' = [inflight EXCEPT ![k].pc = "done", ![k].status = 201]
            /\ response' = IF inflight[k].route = "seed_algorithms"
                           THEN Response("seed", NoRequest, 201,
                                         "Successfully seeded algorithms", "", 0)
                           ELSE response

InitSeed ==
    /\ now = 0
    /\ users = <<>>
    /\ inflight = <<>>
    /\ algorithms = <<>>
    /\ tests = <<>>
    /\ response = NoResponse
    /\ cmp = [pc |-> "idle"]
    /\ crypto_impl = NoInstance
    /\ held = [kind |-> "none", msg |-> None, env |-> None, fresh |-> FALSE]
    /\ ret = [op |-> ""]
    /\ reports = <<>>

NextSeed ==
    \/ \E seeder \in Seeders :
          /\ seed_begin(seeder)
          /\ UNCHANGED <<tests, cmp, crypto_impl, held, ret, reports, now, users>>
    \/ \E k \in 1..Len(inflight) :
          /\ seed_count(k)
          /\ UNCHANGED <<tests, cmp, crypto_impl, held, ret, reports, now, users>>
    \/ \E k \in 1..Len(inflight) :
          /\ seed_commit(k)
          /\ UNCHANGED <<tests, cmp, crypto_impl, held, ret, reports, now, users>>

SpecSeed == InitSeed /\ [][NextSeed]_vars

\* C28: whatever the interleaving of seed calls, no two descriptors of the
\* catalog have the same name, and the catalog is empty or is the seed list:
\* never a part of it, never more than it.
C28_CatalogWholeOrEmpty ==
    /\ \A i, j \in 1..Len(algorithms) : algorithms[i].name = algorithms[j].name => i = j
    /\ algorithms = <<>> \/ algorithms = all_algorithms

\* two calls both counted an empty catalog; one committed the list and the
\* other's commit was refused
C28_Witness ==
    /\ algorithms = all_algorithms
    /\ \E k, l \in 1..Len(inflight) :
          /\ inflight[k].status = 201
          /\ inflight[l].status = 500
          /\ inflight[k].route # inflight[l].route


---------------------------------------------------------------------------
(* bulk_delete_tests over tables of rows of two principals *)

MaxListed == 2      \* ids in one request

\* lists of ids of rows and of one id no row has, with repetitions
ListedIds == SeqsUpTo(1..(MaxRows + 2), MaxListed)

\* up to MaxRows + 1 rows, each of either principal
BulkTables ==
    UNION {[1..n -> {StoredRow(user, 1, "encryption", DefaultInput, 1) : user \in Users}] :
              n \in 0..(MaxRows + 1)}

InitBulk ==
    /\ now = 0
    /\ users = <<>>
    /\ inflight = <<>>
    /\ algorithms = all_algorithms
    /\ tests \in BulkTables
    /\ response = NoResponse
    /\ cmp = [pc |-> "idle"]
    /\ crypto_impl = NoInstance
    /\ held = [kind |-> "none", msg |-> None, env |-> None, fresh |-> FALSE]
    /\ ret = [op |-> ""]
    /\ reports = <<>>

NextBulk ==
    \E user \in Users, test_ids \in ListedIds :
        /\ bulk_delete_tests(user, test_ids)
        /\ UNCHANGED <<cmp, crypto_impl, held, ret, now, users, inflight>>

SpecBulk == InitBulk /\ [][NextBulk]_vars

\* every id of the list is a row of the caller, the list is not empty and
\* names no id twice
AllListedOwned(user, test_ids) ==
    /\ test_ids # <<>>
    /\ \A i, j \in 1..Len(test_ids) : test_ids[i] = test_ids[j] => i = j
    /\ \A i \in 1..Len(test_ids) :
          test_ids[i] \in Ids(tests) /\ tests[test_ids[i]].user_id = user

BulkDeleteStep ==
    LET user == response'.req.user
        test_ids == response'.req.ids
    IN  IF AllListedOwned(user, test_ids)
        THEN /\ response'.status = 200
             /\ response'.body.deleted_count = Len(test_ids)
             /\ Ids(tests') = Ids(tests) \ Range(test_ids)
             /\ \A id \in Ids(tests') : tests'[id] = tests[id]
        ELSE /\ response'.status \in {400, 404}
             /\ tests' = tests

\* C29: a bulk deletion deletes nothing when its list is empty, names an id
\* twice, or names an id that is not a row of the caller; otherwise it deletes
\* exactly the rows listed, answers with their number as deleted_count, and
\* leaves every other row as it was.
C29_BulkAllOrNothing == [][BulkDeleteStep]_vars

\* a bulk deletion removed the two rows it listed and left the third, of
\* another principal, in the table
C29_Witness ==
    /\ response.route = "bulk_delete"
    /\ response.status = 200
    /\ response.body.deleted_count = 2
    /\ \E id \in Ids(tests) : tests[id].user_id # response.req.user


---------------------------------------------------------------------------
(* register and update_profile *)

\* str.strip() and str.lower() on code points
IsSpace(c) == c \in {9, 10, 11, 12, 13, SPACE}

Strip(s) ==
    LET kept == {i \in 1..Len(s) : ~IsSpace(s[i])}
    IN  IF kept = {} THEN <<>>
        ELSE SubSeq(s, CHOOSE i \in kept : \A j \in kept : i <= j,
                       CHOOSE i \in kept : \A j \in kept : i >= j)

Lower(s) == [i \in 1..Len(s) |-> IF s[i] \in 65..90 THEN s[i] + 32 ELSE s[i]]

IsLetter(c) == c \in 65..90 \/ c \in 97..122
IsDigit(c) == c \in 48..57

\* re.match(r"^[a-zA-Z0-9._%+-]+@[a-zA-Z0-9.-]+\.[a-zA-Z]{2,}$", email)
validate_email(email) ==
    \E at \in 2..Len(email), dot \in 4..Len(email) :
        /\ at + 1 < dot
        /\ dot + 2 <= Len(email)
        /\ email[at] = 64
        /\ email[dot] = 46
        /\ \A i \in 1..(at - 1) :
              IsLetter(email[i]) \/ IsDigit(email[i]) \/ email[i] \in {46, 95, 37, 43, 45}
        /\ \A i \in (at + 1)..(dot - 1) :
              IsLetter(email[i]) \/ IsDigit(email[i]) \/ email[i] \in {46, 45}
        /\ \A i \in (dot + 1)..Len(email) : IsLetter(email[i])

\* validate_password: the message of the first rule broken, "" when valid
validate_password(password) ==
    IF Len(password) < 8 THEN "Password must be at least 8 characters long"
    ELSE IF ~\E i \in 1..Len(password) : IsLetter(password[i])
    THEN "Password must contain at least one letter"
    ELSE IF ~\E i \in 1..Len(password) : IsDigit(password[i])
    THEN "Password must contain at least one number"
    ELSE ""

\* User.query.filter_by(username=...).first() and filter_by(email=...)
UsernameTaken(username) == \E i \in 1..Len(users) : users[i].username = username
EmailTaken(email) == \E i \in 1..Len(users) : users[i].email = email

\* User(username, email) with set_password
UserRow(username, email, password) ==
    [username |-> username, email |-> email,
     password_hash |-> [tag |-> "bcrypt", of |-> password]]

\* a request of one of the two routes in progress: what it read from its
\* request and from its User row, what it has assigned on the row in its
\* session, and whether its transaction holds the write lock of the database
AuthCall(route, pc, user_id, username, email, password) ==
    [route |-> route, pc |-> pc, user_id |-> user_id, username |-> username,
     email |-> email, password |-> password, assigned |-> FALSE, lock |-> FALSE,
     status |-> 0, error |-> ""]

\* the request ends: the session is removed, which rolls back what it did not
\* commit
Ended(call, status, error) ==
    [call EXCEPT !.pc = "done", !.status = status, !.error = error, !.lock = FALSE]

\* another request's transaction has written and not yet ended
LockedByOther(k) == \E j \in 1..Len(inflight) : j # k /\ inflight[j].lock

MaxCalls == 2       \* requests of the two routes in one behaviour

\* the position of update_profile after its username block: "email" absent
\* or unchanged, invalid, or to be looked up
AfterUsername(call) ==
    IF call.email = None THEN [call EXCEPT !.pc = "commit"]
    ELSE IF ~validate_email(call.email.chars) THEN Ended(call, 400, "Invalid email format")
    ELSE [call EXCEPT !.pc = "check_email"]

\* a profile update that writes the new username without looking it up
update_profile_unchecked(k, user_id, data) ==
    /\ k = Len(inflight) + 1
    /\ Len(inflight) < MaxCalls
    /\ user_id \in 1..Len(users)
    /\ data.username # None
    /\ users' = [users EXCEPT ![user_id].username = Strip(data.username.chars)]
    /\ inflight' = Append(inflight,
                          Ended(AuthCall("update_profile", "done", user_id, data.username,
                                         data.email, None), 200, ""))

\* register, step by step: the request arrives and is validated, the two
\* lookups, and the commit of the new row, which the UNIQUE constraints on
\* username and email refuse when another request has committed the same
register(k, data) ==
    \/ /\ k = Len(inflight) + 1
       /\ Len(inflight) < MaxCalls
       /\ LET missing == \E f \in {"username", "email", "password"} :
                             data[f] = None \/ data[f].chars = <<>>
              username == Strip(data.username.chars)
              email == Lower(Strip(data.email.chars))
              call == AuthCall("register", "check_username", 0, Text(username),
                               Text(email), data.password)
          IN  inflight' =
                 Append(inflight,
                        IF missing
                        THEN Ended(AuthCall("register", "", 0, data.username, data.email,
                                            data.password), 400, "username, email or password is required")
                        ELSE IF ~validate_email(email)
                        THEN Ended(call, 400, "Invalid email format")
                        ELSE IF validate_password(data.password.chars) # ""
                        THEN Ended(call, 400, validate_password(data.password.chars))
                        ELSE call)
       /\ UNCHANGED users
    \/ /\ k \in 1..Len(inflight)
       /\ inflight[k].route = "register"
       /\ inflight[k].pc = "check_username"
       /\ inflight' = [inflight EXCEPT ![k] =
                          IF UsernameTaken(@.username.chars)
                          THEN Ended(@, 400, "Username already exists")
                          ELSE [@ EXCEPT !.pc = "check_email"]]
       /\ UNCHANGED users
    \/ /\ k \in 1..Len(inflight)
       /\ inflight[k].route = "register"
       /\ inflight[k].pc = "check_email"
       /\ inflight' = [inflight EXCEPT ![k] =
                          IF EmailTaken(@.email.chars)
                          THEN Ended(@, 400, "Email already registered")
                          ELSE [@ EXCEPT !.pc = "commit"]]
       /\ UNCHANGED users
    \/ /\ k \in 1..Len(inflight)
       /\ inflight[k].route = "register"
       /\ inflight[k].pc = "commit"
       /\ LET call == inflight[k]
          IN  IF \/ LockedByOther(k)
                 \/ UsernameTaken(call.username.chars)
                 \/ EmailTaken(call.email.chars)
              THEN /\ inflight' = [inflight EXCEPT ![k] =
                                      Ended(@, 500, "Registration failed")]
                   /\ UNCHANGED users
              ELSE /\ users' = Append(users, UserRow(call.username.chars, call.email.chars,
                                                     call.password.chars))
                   /\ inflight' = [inflight EXCEPT ![k] =
                                      Ended([@ EXCEPT !.user_id = Len(users) + 1], 201, "")]

\* update_profile, step by step: the request arrives and its User row is
\* read; the lookup of the new username, after which the row in the session
\* carries it; the lookup of the new email, before which the session flushes
\* the new username into its open transaction; the commit
update_profile(k, user_id, data) ==
    \/ /\ k = Len(inflight) + 1
       /\ Len(inflight) < MaxCalls
       /\ LET user == users[user_id]
              new_username ==
                  IF data.username # None /\ Strip(data.username.chars) # user.username
                  THEN Text(Strip(data.username.chars)) ELSE None
              new_email ==
                  IF data.email # None /\ Lower(Strip(data.email.chars)) # user.email
                  THEN Text(Lower(Strip(data.email.chars))) ELSE None
              call == AuthCall("update_profile", "check_username", user_id, new_username,
                               new_email, None)
          IN  inflight' =
                 Append(inflight,
                        IF user_id \notin 1..Len(users)
                        THEN Ended(AuthCall("update_profile", "", user_id, data.username,
                                            data.email, None), 404, "User not found")
                        ELSE IF new_username # None THEN call
                        ELSE AfterUsername(call))
       /\ UNCHANGED users
    \/ /\ k \in 1..Len(inflight)
       /\ inflight[k].route = "update_profile"
       /\ inflight[k].pc = "check_username"
       /\ inflight' = [inflight EXCEPT ![k] =
                          IF UsernameTaken(@.username.chars)
                          THEN Ended(@, 400, "Username already exists")
                          ELSE AfterUsername([@ EXCEPT !.assigned = TRUE])]
       /\ UNCHANGED users
    \/ /\ k \in 1..Len(inflight)
       /\ inflight[k].route = "update_profile"
       /\ inflight[k].pc = "check_email"
       /\ inflight' = [inflight EXCEPT ![k] =
                          IF @.assigned /\ (\/ LockedByOther(k)
                                            \/ \E i \in 1..Len(users) :
                                                  /\ i # @.user_id
                                                  /\ users[i].username = @.username.chars)
                          THEN Ended(@, 500, "Failed to update profile")
                          ELSE IF EmailTaken(@.email.chars)
                          THEN Ended(@, 400, "Email already registered")
                          ELSE [@ EXCEPT !.pc = "commit", !.lock = @ \/ inflight[k].assigned]]
       /\ UNCHANGED users
    \/ /\ k \in 1..Len(inflight)
       /\ inflight[k].route = "update_profile"
       /\ inflight[k].pc = "commit"
       /\ LET call == inflight[k]
              username == IF call.assigned THEN call.username.chars
                          ELSE users[call.user_id].username
              email == IF call.email # None THEN call.email.chars
                       ELSE users[call.user_id].email
              others == {i \in 1..Len(users) : i # call.user_id}
          IN  IF \/ LockedByOther(k)
                 \/ \E i \in others : users[i].username = username \/ users[i].email = email
              THEN /\ inflight' = [inflight EXCEPT ![k] =
                                      Ended(@, 500, "Failed to update profile")]
                   /\ UNCHANGED users
              ELSE /\ users' = [users EXCEPT ![call.user_id].username = username,
                                             ![call.user_id].email = email]
                   /\ inflight' = [inflight EXCEPT ![k] = Ended(@, 200, "")]

\* the users of the two routes' requests: "a" and "b" are registered, "c" is
\* free; "c@b" has no top-level domain
NameA == <<97>>
NameB == <<98>>
NameC == <<99>>
MailA == <<97, 64, 98, 46, 105, 111>>
MailB == <<98, 64, 98, 46, 105, 111>>
MailC == <<99, 64, 98, 46, 105, 111>>
MailNoDomain == <<99, 64, 98>>
StrongPassword == <<97, 98, 99, 100, 101, 102, 103, 49>>
NoDigitPassword == <<97, 98, 99, 100, 101, 102, 103, 104>>

RegisteredUsers ==
    {<<>>,
     <<UserRow(NameA, MailA, StrongPassword)>>,
     <<UserRow(NameA, MailA, StrongPassword), UserRow(NameB, MailB, StrongPassword)>>}

RegisterRequests ==
    [username : {Text(<<SPACE>> \o NameC), Text(NameB)},
     email : {Text(<<67>> \o Tail(MailC)), Text(MailB), Text(MailNoDomain)},
     password : {Text(StrongPassword), Text(NoDigitPassword), None}]

ProfileRequests ==
    [username : {None, Text(NameC), Text(NameB)},
     email : {None, Text(MailC), Text(MailB), Text(MailNoDomain)}]

InitAuth ==
    /\ algorithms = all_algorithms
    /\ tests = <<>>
    /\ response = NoResponse
    /\ cmp = [pc |-> "idle"]
    /\ crypto_impl = NoInstance
    /\ held = [kind |-> "none", msg |-> None, env |-> None, fresh |-> FALSE]
    /\ ret = [op |-> ""]
    /\ reports = <<>>
    /\ now = 0
    /\ users \in RegisteredUsers
    /\ inflight = <<>>

NextAuth ==
    \/ /\ \E k \in 1..MaxCalls, data \in RegisterRequests : register(k, data)
       /\ UNCHANGED <<algorithms, tests, response, cmp, crypto_impl, held, ret, reports, now>>
    \/ /\ \E k \in 1..MaxCalls, user_id \in {1, 3}, data \in ProfileRequests :
             update_profile(k, user_id, data)
       /\ UNCHANGED <<algorithms, tests, response, cmp, crypto_impl, held, ret, reports, now>>

SpecAuth == InitAuth /\ [][NextAuth]_vars

\* C30: through every interleaving of register and update_profile requests
\* no two stored users share a username or an email, and a step in which a
\* request is answered with an error (duplicate username or email, invalid
\* email, weak password, missing field, unknown user, refused write) leaves
\* the stored users as they were; this covers the profile update whose new
\* username was accepted and whose new email is then rejected.
UsersDistinct(table) ==
    \A i, j \in 1..Len(table) :
        i # j => /\ table[i].username # table[j].username
                 /\ table[i].email # table[j].email

RejectedIn(before, after) ==
    \E k \in 1..Len(after) :
        /\ after[k].pc = "done"
        /\ after[k].status >= 400
        /\ k > Len(before) \/ before[k].pc # "done"

AuthStep ==
    /\ UsersDistinct(users')
    /\ RejectedIn(inflight, inflight') => users' = users

C30_UsersStayDistinct == [][AuthStep]_vars

\* a profile update has been answered 400 for its email after its new
\* username had been accepted and assigned, and the stored user keeps the
\* old username
C30_Witness ==
    /\ \E k \in 1..Len(inflight) :
          /\ inflight[k].route = "update_profile"
          /\ inflight[k].pc = "done"
          /\ inflight[k].assigned
          /\ inflight[k].status = 400
          /\ inflight[k].error = "Email already registered"
          /\ users[inflight[k].user_id].username # inflight[k].username.chars
    /\ Len(users) >= 2

====
